---- MODULE Spec2Model ----
(***************************************************************************)
(* Verification model of the ESP32 remote I/O Modbus TCP slave.            *)
(*                                                                         *)
(* The model follows the firmware at statement granularity.  Two tasks run *)
(* the interlock code of main/esp32_rio_modbus_tcp_slave.c:                *)
(*   "timer" - the FreeRTOS timer service task, which runs                 *)
(*             debounce_timer_callback and through it on_oe_button_toggle; *)
(*   "main"  - the app_main task, which runs setup_reg_data and then the   *)
(*             loop of mb_slave_run.                                       *)
(* The Modbus protocol engine is a third party: it stores the coil values  *)
(* a master writes straight into coil_reg_params and posts one coil-write  *)
(* notification per write.                                                 *)
(* A program counter value is the number of the source line that the task  *)
(* executes next (file esp32_rio_modbus_tcp_slave.c), or a position inside *)
(* one of the two output loops.                                            *)
(***************************************************************************)
EXTENDS Integers, Sequences, FiniteSets, TLC

VARIABLES
    coil_reg_params,      \* [coils_bank0, coils_bank1], two uint16_t words
    discrete_reg_params,  \* [discrete_inputs], one uint16_t word
    outputs_enabled,      \* static bool outputs_enabled (InterlockState)
    gpio_DQ0,             \* level of the output lines DQ0[i]
    gpio_DQ1,             \* level of the output lines DQ1[i]
    gpio_STATUS_LED,      \* level of the indicator line
    gpio_DI,              \* level of the input lines DI[i]
    mb_events,            \* coil-write notifications the engine holds for the bridge
    pc,                   \* per task: next source line / loop position
    idx,                  \* per task: loop variable i of the output loop being run
    bit,                  \* per task: value MB_IS_COIL_ON returned last
    ret,                  \* per task: where the output loop being run returns to
    oe_coil_on,           \* local of mb_slave_run (line 312)
    pre,                  \* history: per task, the observable state at handler entry
    done,                 \* history: the handler run that has just returned
    window,               \* history: an overlap of the two handlers
    s_button_pressed,     \* remote_io.c: static bool s_button_pressed
    timer_active,         \* the one-shot debounce timer is running
    s_oe_button_toggle_callback,  \* remote_io.c: registered observer or "NULL"
    s_di_level_change_callback,   \* remote_io.c: registered observer or "NULL"
    queue_items,          \* content of the queue s_io_event_queue, oldest first
    io_pc,                \* next source line of io_task (remote_io.c)
    io_num,               \* local io_num of io_task
    s_debounce_timer,     \* remote_io.c: timer handle: "NULL", "valid" or "deleted"
    s_io_event_queue,     \* remote_io.c: queue handle: "NULL", "valid" or "deleted"
    s_io_task_handle,     \* remote_io.c: task handle: "NULL", "valid" or "deleted"
    isr_handlers,         \* GPIO numbers that have io_isr_handler hooked
    blinker,              \* next source line of each morse_blinker_task created
    err,                  \* what esp32_rio_io_services_init / _deinit returned last
    burst,                \* history: the button edges of the current debounce window
    trace,                \* history: the input edges queued and the observer calls made
    param_lock,           \* the contexts inside a critical section of param_lock
    reg,                  \* per context: the word a read-modify-write is about to store
    reg_info,             \* local of mb_slave_run (line 282): the event bits of reg_info.type
    blink,                \* the delay morse_blinker_task is in, and the time passed since it began
    wifi,                 \* wifi_connect.c: s_retry_num, the handlers registered, calls made
    twin                  \* a second run of the interlock code on the same events

\* The state of the interlock code and of the lines it drives.
interlockVars ==
    <<coil_reg_params, discrete_reg_params, outputs_enabled, gpio_DQ0, gpio_DQ1,
      gpio_STATUS_LED, gpio_DI, mb_events, pc, idx, bit, ret, oe_coil_on,
      pre, done, window>>

\* The state of the I/O services (remote_io.c).
dbVars == <<s_button_pressed, timer_active>>

cbVars == <<s_oe_button_toggle_callback, s_di_level_change_callback>>

qVars == <<queue_items, io_pc, io_num>>

resVars == <<s_debounce_timer, s_io_event_queue, s_io_task_handle, isr_handlers>>

sysVars == <<resVars, blinker, err>>

rioVars == <<dbVars, cbVars, qVars, sysVars>>

\* The spinlock param_lock and the registers of the contexts that update the
\* bitfield discrete_inputs.
lockVars == <<param_lock, reg>>

vars == <<interlockVars, rioVars, burst, trace, lockVars, reg_info, blink, wifi, twin>>

(***************************************************************************)
(* Bounds of the model.                                                    *)
(***************************************************************************)
\* Output/input channels per bank that the model drives.  The board has
\* ESP32_RIO_NUM_IO_CHANNELS = 10 of them (remote_io.h:22); every loop of the
\* firmware is uniform in the channel index.
NumChannels == 2

\* Coil-write notifications that can wait for the bridge at one time.
MaxEvents == 2

(***************************************************************************)
(* Program constants.                                                      *)
(***************************************************************************)
OE_COIL_ADDR == 31

\* Width of one coil bank: uint16_t coils_bank0, coils_bank1.
BankBits == 16

Channels == 0 .. (NumChannels - 1)

Tasks == {"timer", "main"}

\* Coil addresses the master writes: output 0 of bank 0, the last modelled
\* output of bank 1, one reserved address and the output-enable coil.
MasterAddrs == {0, 10, BankBits + NumChannels - 1, OE_COIL_ADDR}

(***************************************************************************)
(* Bit arithmetic on 16-bit words.                                         *)
(***************************************************************************)
Pow2(n) == 2 ^ n

TestBit(w, k) == (w \div Pow2(k)) % 2 = 1

OrBit(w, k) == IF TestBit(w, k) THEN w ELSE (w + Pow2(k)) % Pow2(BankBits)

AndNotBit(w, k) == IF TestBit(w, k) THEN w - Pow2(k) ELSE w

\* uint16_t addr = (address): the conversion of the macro argument
Uint16(x) == x % Pow2(16)

(***************************************************************************)
(* modbus_params.h: the three coil macros, each one critical section under *)
(* param_lock, so each is one atomic step.                                 *)
(***************************************************************************)
\* MB_IS_COIL_ON with the bank-1 branch testing coils_bank0 (a copied line).
MB_IS_COIL_ON_Bank0Twice(params, address) ==
    LET addr == Uint16(address) IN
        IF addr < 16
        THEN TestBit(params.coils_bank0, addr)
        ELSE IF addr >= 16 /\ addr < 32
             THEN TestBit(params.coils_bank0, addr - 16)
             ELSE FALSE

MB_IS_COIL_ON(params, address) ==
    LET addr == Uint16(address) IN
        IF addr < 16
        THEN TestBit(params.coils_bank0, addr)
        ELSE IF addr >= 16 /\ addr < 32
             THEN TestBit(params.coils_bank1, addr - 16)
             ELSE FALSE

\* MB_TURN_COIL_ON storing the mask instead of or-ing it in: word = (1 << addr).
MB_TURN_COIL_ON_Assign(params, address) ==
    LET addr == Uint16(address) IN
        IF addr < 16
        THEN [params EXCEPT !.coils_bank0 = Pow2(addr)]
        ELSE IF addr >= 16 /\ addr < 32
             THEN [params EXCEPT !.coils_bank1 = Pow2(addr - 16)]
             ELSE params

MB_TURN_COIL_ON(params, address) ==
    LET addr == Uint16(address) IN
        IF addr < 16
        THEN [params EXCEPT !.coils_bank0 = OrBit(@, addr)]
        ELSE IF addr >= 16 /\ addr < 32
             THEN [params EXCEPT !.coils_bank1 = OrBit(@, addr - 16)]
             ELSE params

\* MB_TURN_COIL_OFF with the mask not complemented: word &= (1 << addr).
MB_TURN_COIL_OFF_MaskNotInverted(params, address) ==
    LET addr == Uint16(address) IN
        IF addr < 16
        THEN [params EXCEPT !.coils_bank0 =
                  IF TestBit(@, addr) THEN Pow2(addr) ELSE 0]
        ELSE IF addr >= 16 /\ addr < 32
             THEN [params EXCEPT !.coils_bank1 =
                       IF TestBit(@, addr - 16) THEN Pow2(addr - 16) ELSE 0]
             ELSE params

\* MB_TURN_COIL_OFF flipping the bit instead of clearing it: word ^= (1 << addr).
MB_TURN_COIL_OFF_Flip(params, address) ==
    LET addr == Uint16(address) IN
        IF addr < 16
        THEN [params EXCEPT !.coils_bank0 =
                  IF TestBit(@, addr) THEN @ - Pow2(addr) ELSE @ + Pow2(addr)]
        ELSE IF addr >= 16 /\ addr < 32
             THEN [params EXCEPT !.coils_bank1 =
                       IF TestBit(@, addr - 16)
                       THEN @ - Pow2(addr - 16)
                       ELSE @ + Pow2(addr - 16)]
             ELSE params

MB_TURN_COIL_OFF(params, address) ==
    LET addr == Uint16(address) IN
        IF addr < 16
        THEN [params EXCEPT !.coils_bank0 = AndNotBit(@, addr)]
        ELSE IF addr >= 16 /\ addr < 32
             THEN [params EXCEPT !.coils_bank1 = AndNotBit(@, addr - 16)]
             ELSE params

\* esp32_rio_turn_output_on / _off: the level gpio_set_level is given.
Level(b) == IF b THEN 1 ELSE 0

(***************************************************************************)
(* History variables.  They record, they never steer.                      *)
(***************************************************************************)
\* What the rest of the system can observe of the interlock.
Obs ==
    [coils |-> coil_reg_params,
     di    |-> discrete_reg_params,
     oe    |-> outputs_enabled,
     DQ0   |-> gpio_DQ0,
     DQ1   |-> gpio_DQ1,
     led   |-> gpio_STATUS_LED]

NoSnap == <<>>

\* A step of task self: any handler run of the other task is no longer a run
\* in isolation.  snap is the new history of self.
PreStep(self, snap) == pre' = [t \in Tasks |-> IF t = self THEN snap ELSE NoSnap]

TimerIdle == pc["timer"] = "idle"

\* The main task is outside the coil-write handling of mb_slave_run.
BridgeIdle == pc["main"] \in {"connect", "L287"}

\* The other task.
Other(self) == IF self = "timer" THEN "main" ELSE "timer"

TaskIdle(t) == IF t = "timer" THEN TimerIdle ELSE BridgeIdle

\* A handler run of task self begins.  An overlap window opens with the first
\* of two runs and counts the second; a third run closes it.
BeginHistory(self) ==
    /\ done' = <<>>
    /\ PreStep(self, <<Obs>>)
    /\ window' = IF TaskIdle(Other(self))
                 THEN <<[snap |-> Obs, n |-> 1]>>
                 ELSE IF window # <<>> /\ window[1].n = 1
                      THEN <<[window[1] EXCEPT !.n = 2]>>
                      ELSE <<>>

\* The interlock code below is modelled on its own: its steps leave the state
\* of the I/O services alone.
Begin(self) == BeginHistory(self) /\ UNCHANGED <<rioVars, burst, trace, lockVars, reg_info, blink, wifi, twin>>

\* A step inside a handler run of task self.
Within(self) ==
    /\ UNCHANGED <<rioVars, burst, trace, lockVars, reg_info, blink, wifi, twin>>
    /\ done' = <<>>
    /\ PreStep(self, pre[self])
    /\ window' = window

\* The handler run of task self returns through branch path.
Return(self, path) ==
    /\ UNCHANGED <<rioVars, burst, trace, lockVars, reg_info, blink, wifi, twin>>
    /\ done' = IF pre[self] # NoSnap
               THEN <<[task |-> self, path |-> path, pre |-> pre[self][1]]>>
               ELSE <<>>
    /\ PreStep(self, NoSnap)
    /\ window' = IF window # <<>> /\ window[1].n = 2 THEN window ELSE <<>>

\* A step that belongs to no handler run (the master, start-up code).
Outside ==
    /\ UNCHANGED <<rioVars, burst, trace, lockVars, reg_info, blink, wifi, twin>>
    /\ done' = <<>>
    /\ pre' = [t \in Tasks |-> NoSnap]
    /\ window' = <<>>

(***************************************************************************)
(* Control flow helpers.                                                   *)
(***************************************************************************)
Goto(self, label) ==
    /\ pc' = [pc EXCEPT ![self] = label]
    /\ UNCHANGED <<idx, ret>>

\* Enter one of the two output loops at i = 0; r is the line after the call.
Call(self, entry, r) ==
    /\ pc' = [pc EXCEPT ![self] = entry]
    /\ idx' = [idx EXCEPT ![self] = 0]
    /\ ret' = [ret EXCEPT ![self] = r]

\* i++ at the end of a loop body: next iteration at label entry, or return.
LoopNext(self, entry) ==
    IF idx[self] + 1 < NumChannels
    THEN /\ pc' = [pc EXCEPT ![self] = entry]
         /\ idx' = [idx EXCEPT ![self] = idx[self] + 1]
         /\ ret' = ret
    ELSE /\ pc' = [pc EXCEPT ![self] = ret[self]]
         /\ idx' = [idx EXCEPT ![self] = 0]
         /\ ret' = [ret EXCEPT ![self] = "none"]

\* The run of the loop ends with this iteration and leaves the handler:
\* only the call of line 323 returns into the wait of line 287.
LoopLeaves(self) == idx[self] + 1 = NumChannels /\ ret[self] = "L287"

LoopHistory(self) ==
    IF LoopLeaves(self) THEN Return(self, "remote_update") ELSE Within(self)

(***************************************************************************)
(* update_digital_outputs (lines 90-105), run by task self.                *)
(***************************************************************************)
\* CoilOfOutput with bank 1 placed right after the ten outputs of bank 0.
CoilOfOutput_Bank1At10(bank, i) == IF bank = 0 THEN i ELSE i + 10

\* CoilOfOutput with bank 1 placed so that its last output reads coil 31.
CoilOfOutput_Bank1At22(bank, i) == IF bank = 0 THEN i ELSE i + 22

\* The coil address that drives output i of a bank (lines 93 and 99).
CoilOfOutput(bank, i) == IF bank = 0 THEN i ELSE i + 16

\* line 93: MB_IS_COIL_ON(i)
update_read0(self) ==
    /\ pc[self] = "upd_r0"
    /\ bit' = [bit EXCEPT ![self] = MB_IS_COIL_ON(coil_reg_params, CoilOfOutput(0, idx[self]))]
    /\ Goto(self, "upd_w0")
    /\ Within(self)
    /\ UNCHANGED <<coil_reg_params, discrete_reg_params, outputs_enabled, gpio_DQ0,
                   gpio_DQ1, gpio_STATUS_LED, gpio_DI, mb_events, oe_coil_on>>

\* lines 94/96: esp32_rio_turn_output_on/off(0, i)
update_write0(self) ==
    /\ pc[self] = "upd_w0"
    /\ gpio_DQ0' = [gpio_DQ0 EXCEPT ![idx[self]] = Level(bit[self])]
    /\ bit' = [bit EXCEPT ![self] = FALSE]
    /\ Goto(self, "upd_r1")
    /\ Within(self)
    /\ UNCHANGED <<coil_reg_params, discrete_reg_params, outputs_enabled,
                   gpio_DQ1, gpio_STATUS_LED, gpio_DI, mb_events, oe_coil_on>>

\* line 99: MB_IS_COIL_ON(i + 16)
update_read1(self) ==
    /\ pc[self] = "upd_r1"
    /\ bit' = [bit EXCEPT ![self] = MB_IS_COIL_ON(coil_reg_params, CoilOfOutput(1, idx[self]))]
    /\ Goto(self, "upd_w1")
    /\ Within(self)
    /\ UNCHANGED <<coil_reg_params, discrete_reg_params, outputs_enabled, gpio_DQ0,
                   gpio_DQ1, gpio_STATUS_LED, gpio_DI, mb_events, oe_coil_on>>

\* lines 100/102: esp32_rio_turn_output_on/off(1, i), then i++
update_write1(self) ==
    /\ pc[self] = "upd_w1"
    /\ gpio_DQ1' = [gpio_DQ1 EXCEPT ![idx[self]] = Level(bit[self])]
    /\ bit' = [bit EXCEPT ![self] = FALSE]
    /\ LoopNext(self, "upd_r0")
    /\ LoopHistory(self)
    /\ UNCHANGED <<coil_reg_params, discrete_reg_params, outputs_enabled,
                   gpio_DQ0, gpio_STATUS_LED, gpio_DI, mb_events, oe_coil_on>>

update_digital_outputs(self) ==
    \/ update_read0(self)
    \/ update_write0(self)
    \/ update_read1(self)
    \/ update_write1(self)

(***************************************************************************)
(* esp32_rio_disable_outputs (remote_io.c lines 203-208), run by task self.*)
(***************************************************************************)
\* line 205: gpio_set_level(DQ0[i], 0)
disable_write0(self) ==
    /\ pc[self] = "dis_w0"
    /\ gpio_DQ0' = [gpio_DQ0 EXCEPT ![idx[self]] = 0]
    /\ Goto(self, "dis_w1")
    /\ Within(self)
    /\ UNCHANGED <<coil_reg_params, discrete_reg_params, outputs_enabled,
                   gpio_DQ1, gpio_STATUS_LED, gpio_DI, mb_events, oe_coil_on, bit>>

\* line 206: gpio_set_level(DQ1[i], 0), then i++
disable_write1(self) ==
    /\ pc[self] = "dis_w1"
    /\ gpio_DQ1' = [gpio_DQ1 EXCEPT ![idx[self]] = 0]
    /\ LoopNext(self, "dis_w0")
    /\ Within(self)
    /\ UNCHANGED <<coil_reg_params, discrete_reg_params, outputs_enabled,
                   gpio_DQ0, gpio_STATUS_LED, gpio_DI, mb_events, oe_coil_on, bit>>

esp32_rio_disable_outputs(self) ==
    \/ disable_write0(self)
    \/ disable_write1(self)

(***************************************************************************)
(* on_oe_button_toggle (lines 58-71), run by the timer task when           *)
(* debounce_timer_callback emits a toggle event.                           *)
(***************************************************************************)
\* line 59: if (outputs_enabled) - TRUE takes the disabling branch
ToggleDisables(enabled) == enabled

\* The timer service task, at position from, enters the handler: line 59.
ToggleEnter(from) ==
    /\ pc["timer"] = from
    /\ IF ToggleDisables(outputs_enabled)
       THEN Goto("timer", "L60")
       ELSE Call("timer", "upd_r0", "L66")     \* line 65
    /\ UNCHANGED <<coil_reg_params, discrete_reg_params, outputs_enabled, gpio_DQ0,
                   gpio_DQ1, gpio_STATUS_LED, gpio_DI, mb_events, oe_coil_on, bit>>

\* A debounced toggle event arrives: the handler is entered from the idle
\* timer service task.
toggle_L59 ==
    /\ ToggleEnter("idle")
    /\ Begin("timer")

\* line 60: outputs_enabled = false
toggle_L60 ==
    /\ pc["timer"] = "L60"
    /\ outputs_enabled' = FALSE
    /\ Goto("timer", "L61")
    /\ Within("timer")
    /\ UNCHANGED <<coil_reg_params, discrete_reg_params, gpio_DQ0,
                   gpio_DQ1, gpio_STATUS_LED, gpio_DI, mb_events, oe_coil_on, bit>>

\* line 61: MB_TURN_COIL_OFF(OE_COIL_ADDR); line 62 enters esp32_rio_disable_outputs
toggle_L61 ==
    /\ pc["timer"] = "L61"
    /\ coil_reg_params' = MB_TURN_COIL_OFF(coil_reg_params, OE_COIL_ADDR)
    /\ Call("timer", "dis_w0", "L63")
    /\ Within("timer")
    /\ UNCHANGED <<discrete_reg_params, outputs_enabled, gpio_DQ0,
                   gpio_DQ1, gpio_STATUS_LED, gpio_DI, mb_events, oe_coil_on, bit>>

\* line 63: esp32_rio_turn_status_led_off(), and the handler returns
toggle_L63 ==
    /\ pc["timer"] = "L63"
    /\ gpio_STATUS_LED' = 0
    /\ Goto("timer", "idle")
    /\ Return("timer", "toggle_disable")
    /\ UNCHANGED <<coil_reg_params, discrete_reg_params, outputs_enabled, gpio_DQ0,
                   gpio_DQ1, gpio_DI, mb_events, oe_coil_on, bit>>

\* line 66: outputs_enabled = true
toggle_L66 ==
    /\ pc["timer"] = "L66"
    /\ outputs_enabled' = TRUE
    /\ Goto("timer", "L67")
    /\ Within("timer")
    /\ UNCHANGED <<coil_reg_params, discrete_reg_params, gpio_DQ0,
                   gpio_DQ1, gpio_STATUS_LED, gpio_DI, mb_events, oe_coil_on, bit>>

\* line 67: MB_TURN_COIL_ON(OE_COIL_ADDR)
toggle_L67 ==
    /\ pc["timer"] = "L67"
    /\ coil_reg_params' = MB_TURN_COIL_ON(coil_reg_params, OE_COIL_ADDR)
    /\ Goto("timer", "L68")
    /\ Within("timer")
    /\ UNCHANGED <<discrete_reg_params, outputs_enabled, gpio_DQ0,
                   gpio_DQ1, gpio_STATUS_LED, gpio_DI, mb_events, oe_coil_on, bit>>

\* line 68: esp32_rio_turn_status_led_on(), and the handler returns
toggle_L68 ==
    /\ pc["timer"] = "L68"
    /\ gpio_STATUS_LED' = 1
    /\ Goto("timer", "idle")
    /\ Return("timer", "toggle_enable")
    /\ UNCHANGED <<coil_reg_params, discrete_reg_params, outputs_enabled, gpio_DQ0,
                   gpio_DQ1, gpio_DI, mb_events, oe_coil_on, bit>>

on_oe_button_toggle ==
    \/ toggle_L59
    \/ toggle_L60
    \/ toggle_L61
    \/ toggle_L63
    \/ toggle_L66
    \/ toggle_L67
    \/ toggle_L68

(***************************************************************************)
(* app_main up to the bridge loop: the WiFi connection is up (line 342),   *)
(* mb_slave_init binds the register areas and runs setup_reg_data          *)
(* (lines 187-200), then mbc_slave_start lets the master in (line 257).    *)
(* The I/O services run from init_services on, before all of this.        *)
(***************************************************************************)
app_main_connected ==
    /\ pc["main"] = "connect"
    /\ Goto("main", "L189")
    /\ Outside
    /\ UNCHANGED <<coil_reg_params, discrete_reg_params, outputs_enabled, gpio_DQ0,
                   gpio_DQ1, gpio_STATUS_LED, gpio_DI, mb_events, oe_coil_on, bit>>

\* line 189: coil_reg_params.coils_bank0 = 0x0000
setup_L189 ==
    /\ pc["main"] = "L189"
    /\ coil_reg_params' = [coil_reg_params EXCEPT !.coils_bank0 = 0]
    /\ Goto("main", "L190")
    /\ Outside
    /\ UNCHANGED <<discrete_reg_params, outputs_enabled, gpio_DQ0,
                   gpio_DQ1, gpio_STATUS_LED, gpio_DI, mb_events, oe_coil_on, bit>>

\* line 190: coil_reg_params.coils_bank1 = 0x0000
setup_L190 ==
    /\ pc["main"] = "L190"
    /\ coil_reg_params' = [coil_reg_params EXCEPT !.coils_bank1 = 0]
    /\ Goto("main", "L193")
    /\ Outside
    /\ UNCHANGED <<discrete_reg_params, outputs_enabled, gpio_DQ0,
                   gpio_DQ1, gpio_STATUS_LED, gpio_DI, mb_events, oe_coil_on, bit>>

\* lines 193-199: bit i of discrete_inputs := level of input line i, i = 0 ..
RECURSIVE ProbeInputs(_, _, _)
ProbeInputs(w, levels, i) ==
    IF i = NumChannels
    THEN w
    ELSE ProbeInputs(IF levels[i] # 0 THEN OrBit(w, i) ELSE AndNotBit(w, i),
                     levels, i + 1)

setup_L193 ==
    /\ pc["main"] = "L193"
    /\ discrete_reg_params' =
           [discrete_reg_params EXCEPT
               !.discrete_inputs = ProbeInputs(@, gpio_DI, 0)]
    /\ Goto("main", "L287")
    /\ Outside
    /\ UNCHANGED <<coil_reg_params, outputs_enabled, gpio_DQ0,
                   gpio_DQ1, gpio_STATUS_LED, gpio_DI, mb_events, oe_coil_on, bit>>

setup_reg_data ==
    \/ setup_L189
    \/ setup_L190
    \/ setup_L193

\* The protocol engine accepts master requests once mbc_slave_start has run.
EngineStarted == pc["main"] \notin {"connect", "L189", "L190", "L193"}

(***************************************************************************)
(* The protocol engine serves a master's write of coil a := v: it stores   *)
(* the bit in the bound coil area and posts a coil-write notification.     *)
(***************************************************************************)
\* The coil area starts at offset 0 (MB_REG_COILS_START): coil a is bit a % 16
\* of word a \div 16 of coil_reg_params.
EngineStore(params, a, v) ==
    IF a < BankBits
    THEN [params EXCEPT !.coils_bank0 =
              IF v = 1 THEN OrBit(@, a) ELSE AndNotBit(@, a)]
    ELSE [params EXCEPT !.coils_bank1 =
              IF v = 1 THEN OrBit(@, a - BankBits) ELSE AndNotBit(@, a - BankBits)]

MasterWriteCoil(a, v) ==
    /\ EngineStarted
    /\ mb_events < MaxEvents
    /\ coil_reg_params' = EngineStore(coil_reg_params, a, v)
    /\ mb_events' = mb_events + 1
    /\ Outside
    /\ UNCHANGED <<discrete_reg_params, outputs_enabled, gpio_DQ0, gpio_DQ1,
                   gpio_STATUS_LED, gpio_DI, pc, idx, bit, ret, oe_coil_on>>

(***************************************************************************)
(* mb_slave_run (lines 281-333), run by the main task.                     *)
(***************************************************************************)
\* lines 287-304: the engine hands over one coil-write notification
bridge_L287 ==
    /\ pc["main"] = "L287"
    /\ mb_events > 0
    /\ mb_events' = mb_events - 1
    /\ Goto("main", "L312")
    /\ Begin("main")
    /\ UNCHANGED <<coil_reg_params, discrete_reg_params, outputs_enabled, gpio_DQ0,
                   gpio_DQ1, gpio_STATUS_LED, gpio_DI, oe_coil_on, bit>>

\* line 312: bool oe_coil_on = MB_IS_COIL_ON(OE_COIL_ADDR)
bridge_L312 ==
    /\ pc["main"] = "L312"
    /\ oe_coil_on' = MB_IS_COIL_ON(coil_reg_params, OE_COIL_ADDR)
    /\ Goto("main", "L313")
    /\ Within("main")
    /\ UNCHANGED <<coil_reg_params, discrete_reg_params, outputs_enabled, gpio_DQ0,
                   gpio_DQ1, gpio_STATUS_LED, gpio_DI, mb_events, bit>>

\* BridgeBranch without the test of line 314: never disables remotely.
BridgeBranch_NoRemoteDisable(enabled, coil_on) ==
    IF enabled
    THEN "remote_update"
    ELSE IF coil_on THEN "remote_enable" ELSE "remote_noop"

\* BridgeBranch without the branch of line 324: never enables remotely.
BridgeBranch_NoRemoteEnable(enabled, coil_on) ==
    IF enabled
    THEN IF ~coil_on THEN "remote_disable" ELSE "remote_update"
    ELSE "remote_noop"

\* BridgeBranch with a plain else at line 324: enables on any coil write.
BridgeBranch_EnableOnAnyWrite(enabled, coil_on) ==
    IF enabled
    THEN IF ~coil_on THEN "remote_disable" ELSE "remote_update"
    ELSE "remote_enable"

\* lines 313, 314, 324: the branch taken for (outputs_enabled, oe_coil_on)
BridgeBranch(enabled, coil_on) ==
    IF enabled
    THEN IF ~coil_on THEN "remote_disable" ELSE "remote_update"
    ELSE IF coil_on THEN "remote_enable" ELSE "remote_noop"

\* lines 313-326: test outputs_enabled and oe_coil_on, enter the branch
bridge_L313 ==
    /\ pc["main"] = "L313"
    /\ oe_coil_on' = FALSE
    /\ LET branch == BridgeBranch(outputs_enabled, oe_coil_on) IN
         \/ /\ branch = "remote_disable"
            /\ Call("main", "dis_w0", "L317")      \* line 316
            /\ Within("main")
         \/ /\ branch = "remote_update"
            /\ Call("main", "upd_r0", "L287")      \* line 323
            /\ Within("main")
         \/ /\ branch = "remote_enable"
            /\ Call("main", "upd_r0", "L327")      \* line 326
            /\ Within("main")
         \/ /\ branch = "remote_noop"
            /\ Goto("main", "L287")
            /\ Return("main", "remote_noop")
    /\ UNCHANGED <<coil_reg_params, discrete_reg_params, outputs_enabled, gpio_DQ0,
                   gpio_DQ1, gpio_STATUS_LED, gpio_DI, mb_events, bit>>

\* line 317: outputs_enabled = false
bridge_L317 ==
    /\ pc["main"] = "L317"
    /\ outputs_enabled' = FALSE
    /\ Goto("main", "L318")
    /\ Within("main")
    /\ UNCHANGED <<coil_reg_params, discrete_reg_params, gpio_DQ0,
                   gpio_DQ1, gpio_STATUS_LED, gpio_DI, mb_events, oe_coil_on, bit>>

\* lines 318-320 with the coil words cleared along with the indicator
bridge_L318_ClearsCoils ==
    /\ pc["main"] = "L318"
    /\ gpio_STATUS_LED' = 0
    /\ coil_reg_params' = [coils_bank0 |-> 0, coils_bank1 |-> 0]
    /\ Goto("main", "L287")
    /\ Return("main", "remote_disable")
    /\ UNCHANGED <<discrete_reg_params, outputs_enabled, gpio_DQ0,
                   gpio_DQ1, gpio_DI, mb_events, oe_coil_on, bit>>

\* lines 318-320: esp32_rio_turn_status_led_off(); continue
bridge_L318 ==
    /\ pc["main"] = "L318"
    /\ gpio_STATUS_LED' = 0
    /\ Goto("main", "L287")
    /\ Return("main", "remote_disable")
    /\ UNCHANGED <<coil_reg_params, discrete_reg_params, outputs_enabled, gpio_DQ0,
                   gpio_DQ1, gpio_DI, mb_events, oe_coil_on, bit>>

\* line 327: outputs_enabled = true
bridge_L327 ==
    /\ pc["main"] = "L327"
    /\ outputs_enabled' = TRUE
    /\ Goto("main", "L328")
    /\ Within("main")
    /\ UNCHANGED <<coil_reg_params, discrete_reg_params, gpio_DQ0,
                   gpio_DQ1, gpio_STATUS_LED, gpio_DI, mb_events, oe_coil_on, bit>>

\* line 328: esp32_rio_turn_status_led_on(), and the loop starts over
bridge_L328 ==
    /\ pc["main"] = "L328"
    /\ gpio_STATUS_LED' = 1
    /\ Goto("main", "L287")
    /\ Return("main", "remote_enable")
    /\ UNCHANGED <<coil_reg_params, discrete_reg_params, outputs_enabled, gpio_DQ0,
                   gpio_DQ1, gpio_DI, mb_events, oe_coil_on, bit>>

mb_slave_run ==
    \/ bridge_L287
    \/ bridge_L312
    \/ bridge_L313
    \/ bridge_L317
    \/ bridge_L318
    \/ bridge_L327
    \/ bridge_L328

(***************************************************************************)
(* The system.  Init is the state app_main has reached when init_services  *)
(* has returned: esp32_rio_configure_gpio has driven every output line and *)
(* the indicator low (remote_io.c lines 88-95), the statics hold their     *)
(* initialisers, the I/O services deliver toggle events.                   *)
(***************************************************************************)
\* #define OE_TOGGLE_BTN 3
OE_TOGGLE_BTN == 3

\* static const gpio_num_t DI[]: the GPIO number of input i is DI[i + 1]
DI == <<4, 5, 6, 7, 15, 16, 17, 9, 8, 18>>

\* The GPIO numbers esp32_rio_io_services_init hooks io_isr_handler to
\* (lines 118-125).
AllHandlers == {OE_TOGGLE_BTN} \cup {DI[i] : i \in 1 .. Len(DI)}

\* The I/O services after a successful esp32_rio_io_services_init
\* (remote_io.c lines 103-149): both observers registered, the queue empty,
\* the debounce timer dormant, io_task blocked in xQueueReceive.
IoServicesStarted ==
    /\ s_button_pressed = FALSE
    /\ timer_active = FALSE
    /\ s_oe_button_toggle_callback = "on_oe_button_toggle"
    /\ s_di_level_change_callback = "on_di_level_change"
    /\ queue_items = <<>>
    /\ io_pc = "L274"
    /\ io_num = 0
    /\ s_debounce_timer = "valid"
    /\ s_io_event_queue = "valid"
    /\ s_io_task_handle = "valid"
    /\ isr_handlers = AllHandlers
    /\ blinker = <<>>
    /\ err = "ESP_OK"
    /\ burst = [edges |-> 0, toggles |-> 0, late |-> FALSE, expiries |-> 0]
    /\ trace = [accepted |-> <<>>, delivered |-> <<>>]

\* mb_param_info_t reg_info is declared without an initialiser (line 282):
\* what it holds before the first mbc_slave_get_param_info is not defined.
Uninitialised == {"uninitialised"}

\* No second run is followed.
NoTwin == <<>>

\* No blinker task is in a delay and no time has been counted.
BlinkInit == blink = [left |-> 0, units |-> 0, periods |-> 0]

\* wifi_connect.c line 45: s_retry_num = 0; no handler is registered yet.
\* (s_semph_get_ip_addrs is NULL, line 44).  The fields link, lost, since, last
\* and reason are history: the state of the station, the calls of the
\* connection-lost callback, the disconnect events handled since the handlers
\* were registered or an address was obtained, and what the disconnect
\* handler did last and for which reason.
WifiInit ==
    wifi = [s_retry_num |-> 0, registered |-> FALSE, sem |-> "NULL", link |-> "idle",
            lost |-> 0, since |-> 0, last |-> "none", reason |-> "none"]

\* The tasks that update discrete_inputs: io_task through the observer, the
\* main task in setup_reg_data.
Updaters == {"io_task", "main"}

\* static portMUX_TYPE param_lock = portMUX_INITIALIZER_UNLOCKED (line 53)
LockInit ==
    /\ param_lock = {}
    /\ reg = [c \in Updaters |-> 0]

\* The interlock code and the lines after esp32_rio_configure_gpio and the
\* static initialisers.
InterlockInitAt(line) ==
    /\ coil_reg_params = [coils_bank0 |-> 0, coils_bank1 |-> 0]
    /\ discrete_reg_params = [discrete_inputs |-> 0]
    /\ outputs_enabled = FALSE
    /\ gpio_DQ0 = [i \in Channels |-> 0]
    /\ gpio_DQ1 = [i \in Channels |-> 0]
    /\ gpio_STATUS_LED = 0
    /\ gpio_DI = [i \in Channels |-> IF i = 0 THEN 1 ELSE 0]
    /\ mb_events = 0
    /\ pc = [t \in Tasks |-> IF t = "timer" THEN "idle" ELSE line]
    /\ idx = [t \in Tasks |-> 0]
    /\ bit = [t \in Tasks |-> FALSE]
    /\ ret = [t \in Tasks |-> "none"]
    /\ oe_coil_on = FALSE
    /\ pre = [t \in Tasks |-> NoSnap]
    /\ done = <<>>
    /\ window = <<>>
    /\ LockInit
    /\ reg_info = Uninitialised
    /\ BlinkInit
    /\ WifiInit
    /\ twin = NoTwin

\* app_main is at line 342, about to connect.
InterlockInit == InterlockInitAt("connect")

Init == InterlockInit /\ IoServicesStarted

Next ==
    \/ on_oe_button_toggle
    \/ app_main_connected
    \/ setup_reg_data
    \/ mb_slave_run
    \/ \E self \in Tasks : update_digital_outputs(self)
    \/ \E self \in Tasks : esp32_rio_disable_outputs(self)
    \/ \E a \in MasterAddrs, v \in {0, 1} : MasterWriteCoil(a, v)

Spec == Init /\ [][Next]_vars

(***************************************************************************)
(* Vocabulary of the properties.                                           *)
(***************************************************************************)
\* No handler is mid-execution and no coil-write notification is pending.
Settled == TimerIdle /\ BridgeIdle /\ mb_events = 0

AllOutputsOff == \A k \in Channels : gpio_DQ0[k] = 0 /\ gpio_DQ1[k] = 0

\* bank0[k] = coil bit k and bank1[k] = coil bit 16 + k, for the coil words params
OutputsMirror(params) ==
    \A k \in Channels :
        /\ gpio_DQ0[k] = (IF TestBit(params.coils_bank0, k) THEN 1 ELSE 0)
        /\ gpio_DQ1[k] = (IF TestBit(params.coils_bank1, k) THEN 1 ELSE 0)

\* Coil 31 is bit 15 of coils_bank1.
MirrorBit(params) == TestBit(params.coils_bank1, OE_COIL_ADDR - BankBits)

\* C1 (interlock safety): while outputs_enabled is false every output line of
\* both banks is off.  The claim speaks of every reachable state; it is stated
\* here for the settled states only, which it covers a fortiori.
C1_InterlockSafety == (Settled /\ ~outputs_enabled) => AllOutputsOff

\* C2 (mirroring): when outputs_enabled is true, no handler is mid-execution
\* and no coil-write event is pending, every output line equals its coil bit.
C2_Mirroring == (Settled /\ outputs_enabled) => OutputsMirror(coil_reg_params)

\* C3 (mirror bit): in every settled state, from start-up on, coil 31 is set
\* if and only if outputs_enabled is true.
C3_MirrorBitSync == Settled => (MirrorBit(coil_reg_params) <=> outputs_enabled)

(***************************************************************************)
(* The two handlers as functions of the observable state: what one run of  *)
(* each does when nothing else runs in between.                            *)
(***************************************************************************)
\* update_digital_outputs (lines 90-105) on observable state o
SeqUpdate(o) ==
    [o EXCEPT !.DQ0 = [k \in Channels |->
                          Level(MB_IS_COIL_ON(o.coils, CoilOfOutput(0, k)))],
              !.DQ1 = [k \in Channels |->
                          Level(MB_IS_COIL_ON(o.coils, CoilOfOutput(1, k)))]]

\* esp32_rio_disable_outputs (remote_io.c lines 203-208) on observable state o
SeqDisable(o) ==
    [o EXCEPT !.DQ0 = [k \in Channels |-> 0],
              !.DQ1 = [k \in Channels |-> 0]]

\* the disabling branch of on_oe_button_toggle (lines 60-63)
SeqToggleOff(o) ==
    [SeqDisable(o) EXCEPT !.oe = FALSE,
                          !.coils = MB_TURN_COIL_OFF(@, OE_COIL_ADDR),
                          !.led = 0]

\* on_oe_button_toggle (lines 58-71)
SeqToggle(o) ==
    IF ToggleDisables(o.oe)
    THEN SeqToggleOff(o)
    ELSE [SeqUpdate(o) EXCEPT !.oe = TRUE,
                              !.coils = MB_TURN_COIL_ON(@, OE_COIL_ADDR),
                              !.led = 1]

\* the coil-write branch of mb_slave_run (lines 312-330)
SeqCoilWrite(o) ==
    LET branch == BridgeBranch(o.oe, MB_IS_COIL_ON(o.coils, OE_COIL_ADDR)) IN
    CASE branch = "remote_disable" -> [SeqDisable(o) EXCEPT !.oe = FALSE, !.led = 0]
      [] branch = "remote_update"  -> SeqUpdate(o)
      [] branch = "remote_enable"  -> [SeqUpdate(o) EXCEPT !.oe = TRUE, !.led = 1]
      [] OTHER                     -> o

\* One toggle run and one coil-write run have overlapped, with no master
\* write since the first of them began, and both have returned.
OverlapOver ==
    /\ window # <<>>
    /\ window[1].n = 2
    /\ TimerIdle
    /\ BridgeIdle

\* C4 (serialization): after a toggle run and a coil-write run that overlap,
\* the interlock state, the registers, the indicator and the outputs are what
\* the two handlers yield when run one after the other, in one of the two
\* orders, from the state in which the first of them began.
C4_Serialized ==
    OverlapOver =>
        Obs \in {SeqCoilWrite(SeqToggle(window[1].snap)),
                 SeqToggle(SeqCoilWrite(window[1].snap))}

(***************************************************************************)
(* Handler contracts.  done holds, in the state a handler run returns to,  *)
(* the observable state in which that run began, provided no other task    *)
(* and no master write acted during the run.                               *)
(***************************************************************************)
Returned(task) == done # <<>> /\ done[1].task = task

\* The coil words w with coil 31 set / cleared and every other bit kept.
WithMirrorBit(w, v) ==
    [coils_bank0 |-> w.coils_bank0,
     coils_bank1 |-> IF v
                     THEN (w.coils_bank1 % 32768) + 32768
                     ELSE w.coils_bank1 % 32768]

\* C5 (local toggle from Disabled): a toggle handled while outputs_enabled is
\* false leaves outputs_enabled true, coil 31 set, the indicator on and every
\* output line equal to its coil bit, and changes no coil bit but bit 31.
C5_ToggleFromDisabled ==
    (Returned("timer") /\ ~done[1].pre.oe) =>
        /\ outputs_enabled
        /\ MirrorBit(coil_reg_params)
        /\ gpio_STATUS_LED = 1
        /\ OutputsMirror(coil_reg_params)
        /\ coil_reg_params = WithMirrorBit(done[1].pre.coils, TRUE)

\* A toggle from Disabled has returned with output 0 of bank 0 driven on and
\* the last output of bank 1 driven off, as their coils ask.
C5_Witness ==
    /\ Returned("timer")
    /\ ~done[1].pre.oe
    /\ TestBit(done[1].pre.coils.coils_bank0, 0)
    /\ ~TestBit(done[1].pre.coils.coils_bank1, NumChannels - 1)
    /\ gpio_DQ0[0] = 1
    /\ gpio_DQ1[NumChannels - 1] = 0

\* C6 (local toggle from Enabled): a toggle handled while outputs_enabled is
\* true leaves outputs_enabled false, coil 31 cleared, every output line off
\* and the indicator off, and changes no coil bit but bit 31.
C6_ToggleFromEnabled ==
    (Returned("timer") /\ done[1].pre.oe) =>
        /\ ~outputs_enabled
        /\ ~MirrorBit(coil_reg_params)
        /\ AllOutputsOff
        /\ gpio_STATUS_LED = 0
        /\ coil_reg_params = WithMirrorBit(done[1].pre.coils, FALSE)

\* A toggle from Enabled has returned; it found an output driven on and
\* coil bits set besides bit 31, which it kept.
C6_Witness ==
    /\ Returned("timer")
    /\ done[1].pre.oe
    /\ done[1].pre.DQ0[0] = 1
    /\ done[1].pre.DQ1[NumChannels - 1] = 1
    /\ MirrorBit(done[1].pre.coils)
    /\ TestBit(coil_reg_params.coils_bank0, 0)
    /\ TestBit(coil_reg_params.coils_bank1, NumChannels - 1)

\* C7 (remote disable): a coil-write event handled while outputs_enabled is
\* true and coil 31 reads cleared leaves outputs_enabled false, every output
\* line off and the indicator off.
C7_RemoteDisable ==
    (Returned("main") /\ done[1].pre.oe /\ ~MirrorBit(done[1].pre.coils)) =>
        /\ ~outputs_enabled
        /\ AllOutputsOff
        /\ gpio_STATUS_LED = 0

\* A remote disable has returned; it found outputs driven on.
C7_Witness ==
    /\ Returned("main")
    /\ done[1].pre.oe
    /\ ~MirrorBit(done[1].pre.coils)
    /\ done[1].pre.DQ0[0] = 1
    /\ done[1].pre.led = 1

\* C8 (remote coil update): a coil-write event handled while outputs_enabled
\* is true and coil 31 reads set leaves outputs_enabled true and every output
\* line equal to its coil bit.
C8_RemoteUpdate ==
    (Returned("main") /\ done[1].pre.oe /\ MirrorBit(done[1].pre.coils)) =>
        /\ outputs_enabled
        /\ OutputsMirror(done[1].pre.coils)
        /\ OutputsMirror(coil_reg_params)

\* A remote update has returned; it turned output 0 of bank 0 on (the master
\* had written coil 0 := 1) and the last output of bank 1 off.
C8_Witness ==
    /\ Returned("main")
    /\ done[1].pre.oe
    /\ MirrorBit(done[1].pre.coils)
    /\ done[1].pre.DQ0[0] = 0
    /\ gpio_DQ0[0] = 1
    /\ done[1].pre.DQ1[NumChannels - 1] = 1
    /\ gpio_DQ1[NumChannels - 1] = 0

\* C9 (remote enable): a coil-write event handled while outputs_enabled is
\* false and coil 31 reads set leaves outputs_enabled true, every output line
\* equal to its coil bit and the indicator on.
C9_RemoteEnable ==
    (Returned("main") /\ ~done[1].pre.oe /\ MirrorBit(done[1].pre.coils)) =>
        /\ outputs_enabled
        /\ OutputsMirror(coil_reg_params)
        /\ gpio_STATUS_LED = 1

\* A remote enable has returned; it drove an output on that was off.
C9_Witness ==
    /\ Returned("main")
    /\ ~done[1].pre.oe
    /\ MirrorBit(done[1].pre.coils)
    /\ done[1].pre.DQ1[NumChannels - 1] = 0
    /\ gpio_DQ1[NumChannels - 1] = 1
    /\ gpio_DQ0[0] = 0
    /\ done[1].pre.led = 0

\* C10 (remote write while Disabled, mirror bit clear): a coil-write event
\* handled while outputs_enabled is false and coil 31 reads cleared leaves
\* outputs_enabled, every output level, the indicator level and the three
\* register bitfields as they were.
C10_RemoteNoop ==
    (Returned("main") /\ ~done[1].pre.oe /\ ~MirrorBit(done[1].pre.coils)) =>
        Obs = done[1].pre

\* Such an event has been handled with output coils set and inputs mirrored.
C10_Witness ==
    /\ Returned("main")
    /\ ~done[1].pre.oe
    /\ ~MirrorBit(done[1].pre.coils)
    /\ TestBit(coil_reg_params.coils_bank0, 0)
    /\ discrete_reg_params.discrete_inputs # 0
    /\ AllOutputsOff

(***************************************************************************)
(* Deferred coil writes and the steady indicator.                          *)
(***************************************************************************)
\* The coil words without the mirror bit: the requests for the outputs.
Requests(params) == WithMirrorBit(params, FALSE)

\* A step of the firmware (any step but a master write, which posts a
\* notification) keeps every coil bit other than bit 31.
StoredKept == (mb_events' <= mb_events) => Requests(coil_reg_params') = Requests(coil_reg_params)

\* A handler run that found outputs_enabled false and left it true drove every
\* output line to the coil bit stored when the run began.
EnableDrivesStored ==
    (done # <<>> /\ ~done[1].pre.oe /\ outputs_enabled) =>
        /\ OutputsMirror(done[1].pre.coils)
        /\ Requests(coil_reg_params) = Requests(done[1].pre.coils)

\* C11 (deferred coil writes): a coil value the master writes while
\* outputs_enabled is false stays stored - no step of the firmware changes a
\* coil bit other than bit 31 - and the next transition to Enabled, by local
\* toggle or by remote enable, drives the line to the stored value.
C11_DeferredWrites == []EnableDrivesStored /\ [][StoredKept]_vars

\* A transition to Enabled has returned: it found coil 0 set with every output
\* off and outputs_enabled false, and has driven output 0 of bank 0 on.
C11_Witness ==
    /\ done # <<>>
    /\ ~done[1].pre.oe
    /\ outputs_enabled
    /\ TestBit(done[1].pre.coils.coils_bank0, 0)
    /\ \A k \in Channels : done[1].pre.DQ0[k] = 0 /\ done[1].pre.DQ1[k] = 0
    /\ gpio_DQ0[0] = 1

\* C17 (steady indicator): with no blinker started, whenever no interlock
\* handler is mid-execution the indicator is on exactly if outputs_enabled.
C17_SteadyIndicator ==
    (TimerIdle /\ BridgeIdle) => (gpio_STATUS_LED = 1 <=> outputs_enabled)

(***************************************************************************)
(* Idempotence of the forced disable.                                      *)
(***************************************************************************)
\* C16 as stated (idempotent disable by a repeated local toggle): after a
\* toggle that disabled, one more application of the toggle handler leaves
\* outputs_enabled, coil 31, the outputs and the indicator as the first did.
C16_SecondToggleNoOp ==
    (Returned("timer") /\ done[1].pre.oe) => SeqToggle(Obs) = Obs

\* C16 amended (P6): the forcing actions of the disabling branch (lines 60-63:
\* outputs_enabled false, coil 31 off, all outputs off, indicator off) change
\* nothing when they are applied to the state they have just produced; the
\* toggle handler itself, applied a second time, does not repeat them but
\* takes the enabling branch.
C16_DisableIdempotent ==
    (Returned("timer") /\ done[1].pre.oe) =>
        /\ SeqToggleOff(Obs) = Obs
        /\ ~ToggleDisables(outputs_enabled)

\* A toggle from Enabled has returned: it found coil 31 set, the indicator on
\* and output 0 of bank 0 on, and has forced them off.
C16_Witness ==
    /\ Returned("timer")
    /\ done[1].pre.oe
    /\ MirrorBit(done[1].pre.coils)
    /\ done[1].pre.led = 1
    /\ done[1].pre.DQ0[0] = 1
    /\ gpio_DQ0[0] = 0
    /\ gpio_STATUS_LED = 0

(***************************************************************************)
(* remote_io.c: the debouncer of the output-enable button.  io_isr_handler *)
(* runs on the falling edge of OE_TOGGLE_BTN; s_debounce_timer is a        *)
(* one-shot timer of DEBOUNCE_TIME_MS; debounce_timer_callback runs in the *)
(* timer service task when the timer expires, and calls the registered    *)
(* observer, on_oe_button_toggle.                                         *)
(***************************************************************************)
\* Button edges that the model lets arrive in one debounce window.
MaxEdges == 3

\* What the interlock handlers read and write, but for the control state.
lineVars ==
    <<coil_reg_params, discrete_reg_params, outputs_enabled, gpio_DQ0, gpio_DQ1,
      gpio_STATUS_LED, gpio_DI, mb_events, oe_coil_on, bit>>

histVars == <<pre, done, window>>

\* The timer service task is inside debounce_timer_callback, before the call
\* of the observer.
InCallback == pc["timer"] \in {"cb_L297", "cb_L299", "cb_L303", "cb_L304"}

\* History: an edge with the timer dormant and the timer task idle opens a
\* window; an edge that finds the timer task busy came after the expiry;
\* expiries counts the times the timer has run out since the window opened.
BurstEdge ==
    IF ~timer_active /\ pc["timer"] = "idle"
    THEN [edges |-> 1, toggles |-> 0, late |-> FALSE, expiries |-> 0]
    ELSE [burst EXCEPT !.edges = @ + 1, !.late = @ \/ pc["timer"] # "idle"]

\* io_isr_handler taking both branches for the button: it also sends the
\* GPIO number of the button to the queue.
io_isr_handler_button_Enqueues ==
    /\ OE_TOGGLE_BTN \in isr_handlers
    /\ s_debounce_timer = "valid"
    /\ (~timer_active /\ pc["timer"] = "idle") \/ burst.edges < MaxEdges
    /\ s_button_pressed' = TRUE
    /\ timer_active' = TRUE
    /\ burst' = BurstEdge
    /\ queue_items' = Append(queue_items, OE_TOGGLE_BTN)
    /\ UNCHANGED <<interlockVars, cbVars, io_pc, io_num, sysVars, trace, lockVars, reg_info, blink, wifi, twin>>

\* io_isr_handler, gpio_num == OE_TOGGLE_BTN (lines 262-264):
\* s_button_pressed = true; xTimerStartFromISR starts or restarts the timer.
io_isr_handler_button ==
    /\ OE_TOGGLE_BTN \in isr_handlers
    /\ s_debounce_timer = "valid"
    /\ (~timer_active /\ pc["timer"] = "idle") \/ burst.edges < MaxEdges
    /\ s_button_pressed' = TRUE
    /\ timer_active' = TRUE
    /\ burst' = BurstEdge
    /\ UNCHANGED <<interlockVars, cbVars, qVars, sysVars, trace, lockVars, reg_info, blink, wifi, twin>>

\* The period of the one-shot timer runs out: the timer service task, when it
\* is free, takes the timer off its list and calls the callback.
debounce_timer_expire ==
    /\ timer_active
    /\ pc["timer"] = "idle"
    /\ timer_active' = FALSE
    /\ Goto("timer", "cb_L297")
    /\ burst' = [burst EXCEPT !.expiries = @ + 1]
    /\ UNCHANGED <<lineVars, histVars, s_button_pressed, cbVars, qVars, sysVars, trace, lockVars, reg_info, blink, wifi, twin>>

\* line 297, with the condition negated
DebounceFires_Inverted(pressed) == ~pressed

\* line 297 left out: the callback notifies on every expiry
DebounceFires_Always(pressed) == TRUE

\* line 297: if (s_button_pressed)
DebounceFires(pressed) == pressed

cb_L297 ==
    /\ pc["timer"] = "cb_L297"
    /\ Goto("timer", IF DebounceFires(s_button_pressed) THEN "cb_L299" ELSE "idle")
    /\ UNCHANGED <<lineVars, histVars, rioVars, burst, trace, lockVars, reg_info, blink, wifi, twin>>

\* line 299: s_button_pressed = false
cb_L299 ==
    /\ pc["timer"] = "cb_L299"
    /\ s_button_pressed' = FALSE
    /\ Goto("timer", "cb_L303")
    /\ UNCHANGED <<lineVars, histVars, timer_active, cbVars, qVars, sysVars, burst, trace, lockVars, reg_info, blink, wifi, twin>>

\* line 303: if (s_oe_button_toggle_callback)
cb_L303 ==
    /\ pc["timer"] = "cb_L303"
    /\ Goto("timer", IF s_oe_button_toggle_callback # "NULL" THEN "cb_L304" ELSE "idle")
    /\ UNCHANGED <<lineVars, histVars, rioVars, burst, trace, lockVars, reg_info, blink, wifi, twin>>

\* line 304: s_oe_button_toggle_callback() - one toggle event is emitted and
\* on_oe_button_toggle begins.
cb_L304 ==
    /\ ToggleEnter("cb_L304")
    /\ BeginHistory("timer")
    /\ burst' = [burst EXCEPT !.toggles = @ + 1]
    /\ UNCHANGED <<rioVars, trace, lockVars, reg_info, blink, wifi, twin>>

debounce_timer_callback == cb_L297 \/ cb_L299 \/ cb_L303 \/ cb_L304

\* on_oe_button_toggle after its entry, and the two output loops it calls
toggle_run ==
    \/ toggle_L60
    \/ toggle_L61
    \/ toggle_L63
    \/ toggle_L66
    \/ toggle_L67
    \/ toggle_L68
    \/ update_digital_outputs("timer")
    \/ esp32_rio_disable_outputs("timer")

\* Everything the timer service task does.
TimerTask == debounce_timer_expire \/ debounce_timer_callback \/ toggle_run

NextDebounce ==
    \/ io_isr_handler_button
    \/ debounce_timer_expire
    \/ debounce_timer_callback
    \/ toggle_run

\* The timer service task is a FreeRTOS task that is ready whenever a timer
\* has expired or its callback has not returned: the scheduler runs it.
SpecDebounce == Init /\ [][NextDebounce]_vars /\ WF_vars(TimerTask)

\* In a window whose edges all came before the expiry: no toggle event while
\* the timer runs or the callback has not reached its call; exactly one from
\* the call on.
OneTogglePerWindow ==
    (burst.edges >= 1 /\ ~burst.late) =>
        /\ (timer_active \/ InCallback) => burst.toggles = 0
        /\ (~timer_active /\ ~InCallback) => burst.toggles = 1

\* C12 (debounce, P3): K >= 1 button edges that all arrive within one debounce
\* window give exactly one call of the toggle observer, made after the last of
\* them; with a fair timer service task the call does come.
C12_Debounce ==
    /\ []OneTogglePerWindow
    /\ (burst.edges >= 1 /\ ~burst.late /\ burst.toggles = 0)
           ~> (burst.toggles = 1 \/ burst.late)

\* MaxEdges edges came within one window, the one toggle event has been
\* emitted and its handler has returned.
C12_Witness ==
    /\ burst.edges = MaxEdges
    /\ ~burst.late
    /\ burst.toggles = 1
    /\ pc["timer"] = "idle"
    /\ ~timer_active

(***************************************************************************)
(* Bit addressing on the full board: update_digital_outputs over all of    *)
(* the ESP32_RIO_NUM_IO_CHANNELS channels, as a function of the coil words.*)
(***************************************************************************)
ESP32_RIO_NUM_IO_CHANNELS == 10

AllChannels == 0 .. (ESP32_RIO_NUM_IO_CHANNELS - 1)

\* Values of a coil bank that the map is exercised on: none, all, the first
\* and the last output bit, bit 10 (reserved), bit 15, and mixed patterns.
CoilWords == {0, 1, 512, 513, 1023, 1024, 32768, 33280, 43690, 65535}

\* update_digital_outputs (lines 90-105): the level given to each line
UpdateLevels(params, bank) ==
    [i \in AllChannels |-> Level(MB_IS_COIL_ON(params, CoilOfOutput(bank, i)))]

InitCoilMap ==
    /\ coil_reg_params \in [coils_bank0 : CoilWords, coils_bank1 : CoilWords]
    /\ discrete_reg_params = [discrete_inputs |-> 0]
    /\ outputs_enabled = FALSE
    /\ gpio_DQ0 = [i \in AllChannels |-> 0]
    /\ gpio_DQ1 = [i \in AllChannels |-> 0]
    /\ gpio_STATUS_LED = 0
    /\ gpio_DI = [i \in AllChannels |-> 0]
    /\ mb_events = 0
    /\ pc = [t \in Tasks |-> "idle"]
    /\ idx = [t \in Tasks |-> 0]
    /\ bit = [t \in Tasks |-> FALSE]
    /\ ret = [t \in Tasks |-> "none"]
    /\ oe_coil_on = FALSE
    /\ pre = [t \in Tasks |-> NoSnap]
    /\ done = <<>>
    /\ window = <<>>
    /\ LockInit
    /\ reg_info = Uninitialised
    /\ BlinkInit
    /\ WifiInit
    /\ twin = NoTwin
    /\ IoServicesStarted

\* One whole run of update_digital_outputs; done records the coil words it ran on.
coilmap_update ==
    /\ gpio_DQ0' = UpdateLevels(coil_reg_params, 0)
    /\ gpio_DQ1' = UpdateLevels(coil_reg_params, 1)
    /\ done' = <<[task |-> "timer", path |-> "update", pre |-> Obs]>>
    /\ UNCHANGED <<coil_reg_params, discrete_reg_params, outputs_enabled,
                   gpio_STATUS_LED, gpio_DI, mb_events, pc, idx, bit, ret, oe_coil_on,
                   pre, window, rioVars, burst, trace, lockVars, reg_info, blink, wifi, twin>>

\* MB_TURN_COIL_ON(OE_COIL_ADDR) / MB_TURN_COIL_OFF(OE_COIL_ADDR), lines 67 and 61
coilmap_turn_oe(on) ==
    /\ coil_reg_params' = IF on THEN MB_TURN_COIL_ON(coil_reg_params, OE_COIL_ADDR)
                                ELSE MB_TURN_COIL_OFF(coil_reg_params, OE_COIL_ADDR)
    /\ coil_reg_params' # coil_reg_params
    /\ done' = <<>>
    /\ UNCHANGED <<discrete_reg_params, outputs_enabled, gpio_DQ0, gpio_DQ1,
                   gpio_STATUS_LED, gpio_DI, mb_events, pc, idx, bit, ret, oe_coil_on,
                   pre, window, rioVars, burst, trace, lockVars, reg_info, blink, wifi, twin>>

NextCoilMap ==
    \/ coilmap_update
    \/ \E on \in BOOLEAN : coilmap_turn_oe(on)

SpecCoilMap == InitCoilMap /\ [][NextCoilMap]_vars

\* C13 (bit addressing, P4): for every k in 0..9 coil address k is bit k of
\* coils_bank0 and coil address 16 + k is bit k of coils_bank1, and a run of
\* update_digital_outputs drives output k of bank 0 and of bank 1 to exactly
\* those bits; no output channel is driven from coil 31: the levels computed
\* are the same whether coil 31 is set or cleared.
C13_BitAddressing ==
    /\ \A k \in AllChannels :
           /\ MB_IS_COIL_ON(coil_reg_params, k) = TestBit(coil_reg_params.coils_bank0, k)
           /\ MB_IS_COIL_ON(coil_reg_params, 16 + k) = TestBit(coil_reg_params.coils_bank1, k)
    /\ done # <<>> =>
           \A k \in AllChannels :
               /\ gpio_DQ0[k] = (IF TestBit(coil_reg_params.coils_bank0, k) THEN 1 ELSE 0)
               /\ gpio_DQ1[k] = (IF TestBit(coil_reg_params.coils_bank1, k) THEN 1 ELSE 0)
    /\ \A bank \in {0, 1} :
           UpdateLevels(WithMirrorBit(coil_reg_params, TRUE), bank)
               = UpdateLevels(WithMirrorBit(coil_reg_params, FALSE), bank)

\* update_digital_outputs has run with coil 25 and coil 31 set and coil 9
\* clear: output 9 of bank 1 is on, output 9 of bank 0 is off.
C13_Witness ==
    /\ done # <<>>
    /\ done[1].path = "update"
    /\ TestBit(coil_reg_params.coils_bank1, 9)
    /\ ~TestBit(coil_reg_params.coils_bank0, 9)
    /\ MirrorBit(coil_reg_params)
    /\ gpio_DQ1[9] = 1
    /\ gpio_DQ0[9] = 0

(***************************************************************************)
(* remote_io.c: the input path.  io_isr_handler runs on every edge of an   *)
(* input line and sends the GPIO number to s_io_event_queue; io_task       *)
(* receives the numbers and calls the registered observer,                *)
(* on_di_level_change, which mirrors the line into discrete_inputs.       *)
(***************************************************************************)
\* xQueueCreate(10, sizeof(uint32_t))
QueueLength == 10

\* The input lines on which the model lets edges arrive: the first and the
\* last of the modelled channels.
EdgeInputs == {0, NumChannels - 1}

ctlVars == <<pc, idx, ret>>

\* xQueueSendFromISR on a full queue pushing the oldest entry out.
xQueueSendFromISR_Overwrite(items, item) ==
    IF Len(items) < QueueLength THEN Append(items, item) ELSE Append(Tail(items), item)

\* xQueueSendFromISR (line 266): a full queue refuses the item; the return
\* value is not looked at.
xQueueSendFromISR(items, item) ==
    IF Len(items) < QueueLength THEN Append(items, item) ELSE items

\* An edge on input line i, and io_isr_handler for it (lines 261, 265-266).
\* done records the run of the interrupt handler.
IsrInput(i) ==
    /\ DI[i + 1] \in isr_handlers => s_io_event_queue = "valid"
    /\ gpio_DI' = [gpio_DI EXCEPT ![i] = 1 - @]
    /\ queue_items' = IF DI[i + 1] \in isr_handlers
                      THEN xQueueSendFromISR(queue_items, DI[i + 1])
                      ELSE queue_items
    /\ done' = <<[task |-> "isr", path |-> "io_isr_handler", pre |-> Obs,
                  queue |-> queue_items, gpio_num |-> DI[i + 1],
                  consumer |-> <<io_pc, io_num>>]>>
    /\ UNCHANGED <<coil_reg_params, discrete_reg_params, outputs_enabled, gpio_DQ0,
                   gpio_DQ1, gpio_STATUS_LED, mb_events, oe_coil_on, bit, ctlVars,
                   pre, window, dbVars, cbVars, io_pc, io_num, sysVars, burst>>

input_edge(i) == IsrInput(i) /\ UNCHANGED <<trace, lockVars, reg_info, blink, wifi, twin>>

\* line 274: xQueueReceive(s_io_event_queue, &io_num, portMAX_DELAY)
io_L274 ==
    /\ s_io_task_handle = "valid"
    /\ io_pc = "L274"
    /\ queue_items # <<>>
    /\ io_num' = Head(queue_items)
    /\ queue_items' = Tail(queue_items)
    /\ io_pc' = "L279"
    /\ done' = <<>>
    /\ UNCHANGED <<lineVars, ctlVars, pre, window, dbVars, cbVars, sysVars, burst, trace, lockVars, reg_info, blink, wifi, twin>>

\* lines 278-279 with the scan stopping at i = 0 whatever io_num is
InputOfGpio_First(gpio_num) == 0

\* lines 278-279: the index i with io_num == DI[i], if any
InputOfGpio(gpio_num) ==
    LET found == {i \in Channels : DI[i + 1] = gpio_num} IN
    IF found = {} THEN -1 ELSE CHOOSE i \in found : TRUE

\* lines 278-284: look io_num up, read and log the level, test the observer
io_L279 ==
    /\ s_io_task_handle = "valid"
    /\ io_pc = "L279"
    /\ io_pc' = IF InputOfGpio(io_num) >= 0 /\ s_di_level_change_callback # "NULL"
                THEN "L285"
                ELSE "L274"
    /\ done' = <<>>
    /\ UNCHANGED <<lineVars, ctlVars, pre, window, dbVars, cbVars,
                   queue_items, io_num, sysVars, burst, trace, lockVars, reg_info, blink, wifi, twin>>

\* esp32_rio_is_input_on (lines 195-197)
esp32_rio_is_input_on(input_number) == gpio_DI[input_number] # 0

\* lines 76-80 with the two branches exchanged
DiscreteInputsAfter_Inverted(word, input_number, on) ==
    IF on THEN AndNotBit(word, input_number) ELSE OrBit(word, input_number)

\* lines 76-80: discrete_inputs |= (1U << n) or discrete_inputs &= ~(1U << n)
DiscreteInputsAfter(word, input_number, on) ==
    IF on THEN OrBit(word, input_number) ELSE AndNotBit(word, input_number)

\* on_di_level_change (esp32_rio_modbus_tcp_slave.c lines 74-82): one critical
\* section under param_lock, in which the line is sampled.
on_di_level_change(input_number) ==
    discrete_reg_params' =
        [discrete_reg_params EXCEPT !.discrete_inputs =
            DiscreteInputsAfter(@, input_number, esp32_rio_is_input_on(input_number))]

\* line 285: s_di_level_change_callback(i); line 288: break
ObserverCall ==
    /\ s_io_task_handle = "valid"
    /\ io_pc = "L285"
    /\ on_di_level_change(InputOfGpio(io_num))
    /\ io_pc' = "L274"
    /\ done' = <<[task |-> "io_task", path |-> "on_di_level_change", pre |-> Obs,
                  input |-> InputOfGpio(io_num)]>>
    /\ UNCHANGED <<coil_reg_params, outputs_enabled, gpio_DQ0, gpio_DQ1,
                   gpio_STATUS_LED, gpio_DI, mb_events, oe_coil_on, bit, ctlVars,
                   pre, window, dbVars, cbVars, queue_items, io_num, sysVars, burst>>

io_L285 == ObserverCall /\ UNCHANGED <<trace, lockVars, reg_info, blink, wifi, twin>>

io_task == io_L274 \/ io_L279 \/ io_L285

NextQueue ==
    \/ \E i \in EdgeInputs : input_edge(i)
    \/ io_task

SpecQueue == Init /\ [][NextQueue]_vars

\* The observer has just run for an input.
ObserverRan == done # <<>> /\ done[1].path = "on_di_level_change"

\* C14 (input mirror, P5): after on_di_level_change(i), bit i of
\* discrete_inputs equals the level of input line i as sampled in the critical
\* section, every other bit of discrete_inputs is as before, and the coil
\* banks and outputs_enabled are as before.
C14_InputMirror ==
    ObserverRan =>
        /\ TestBit(discrete_reg_params.discrete_inputs, done[1].input)
               = (gpio_DI[done[1].input] = 1)
        /\ \A k \in (0 .. (BankBits - 1)) \ {done[1].input} :
               TestBit(discrete_reg_params.discrete_inputs, k)
                   = TestBit(done[1].pre.di.discrete_inputs, k)
        /\ coil_reg_params = done[1].pre.coils
        /\ outputs_enabled = done[1].pre.oe

\* The observer has run for the last modelled input: it found its bit clear
\* and the line high, with bit 0 set, and has set the bit.
C14_Witness ==
    /\ ObserverRan
    /\ NumChannels > 1
    /\ done[1].input = NumChannels - 1
    /\ ~TestBit(done[1].pre.di.discrete_inputs, NumChannels - 1)
    /\ TestBit(done[1].pre.di.discrete_inputs, 0)
    /\ TestBit(discrete_reg_params.discrete_inputs, NumChannels - 1)
    /\ gpio_DI[NumChannels - 1] = 1

\* The interrupt handler has just run for an input edge.
IsrRan == done # <<>> /\ done[1].path = "io_isr_handler"

\* C15 (queue overflow, scenario D): the queue never holds more than 10
\* entries; an input edge that finds 10 entries is dropped and leaves the
\* queue, the registers, the interlock, the outputs and the consumer as they
\* were; an edge that finds fewer is appended at the tail.
C15_QueueOverflow ==
    /\ Len(queue_items) <= 10
    /\ IsrRan =>
           IF Len(done[1].queue) = 10
           THEN /\ queue_items = done[1].queue
                /\ Obs = done[1].pre
                /\ <<io_pc, io_num>> = done[1].consumer
           ELSE queue_items = Append(done[1].queue, done[1].gpio_num)

\* An input edge has just found the queue holding 10 entries and was dropped,
\* after the consumer had taken entries out and later edges had refilled it.
C15_Witness ==
    /\ IsrRan
    /\ Len(done[1].queue) = 10
    /\ io_pc # "L274"

(***************************************************************************)
(* The alarm blinker.  on_connection_lost (esp32_rio_modbus_tcp_slave.c    *)
(* lines 85-87) is the callback the WiFi disconnect handler calls once the *)
(* retries are used up; it calls esp32_rio_start_morse_blinker, which      *)
(* creates one more task running morse_blinker_task (remote_io.c           *)
(* lines 310-337).  Neither services nor handlers are stopped by it.       *)
(***************************************************************************)
\* Blinker tasks that the model lets be created.
MaxBlinkers == 2

\* esp32_rio_start_morse_blinker (lines 252-257): xTaskCreate, handle not kept
esp32_rio_start_morse_blinker ==
    blinker' = Append(blinker, "L312")

on_connection_lost ==
    /\ Len(blinker) < MaxBlinkers
    /\ esp32_rio_start_morse_blinker
    /\ UNCHANGED <<interlockVars, dbVars, cbVars, qVars, resVars, err, burst, trace, lockVars, reg_info, blink, wifi, twin>>

\* morse_blinker_task: the level each gpio_set_level(STATUS_LED, ..) writes
\* and the line of the next one (the delays between them pass unobserved).
BlinkerWrite(line) ==
    CASE line = "L312" -> [level |-> 0, next |-> "L320"]
      [] line = "L320" -> [level |-> 1, next |-> "L322"]
      [] line = "L322" -> [level |-> 0, next |-> "L326"]
      [] line = "L326" -> [level |-> 1, next |-> "L328"]
      [] line = "L328" -> [level |-> 0, next |-> "L332"]
      [] line = "L332" -> [level |-> 1, next |-> "L334"]
      [] line = "L334" -> [level |-> 0, next |-> "L320"]

morse_blinker_task(b) ==
    /\ gpio_STATUS_LED' = BlinkerWrite(blinker[b]).level
    /\ blinker' = [blinker EXCEPT ![b] = BlinkerWrite(blinker[b]).next]
    /\ done' = <<>>
    /\ pre' = [t \in Tasks |-> NoSnap]
    /\ window' = <<>>
    /\ UNCHANGED <<coil_reg_params, discrete_reg_params, outputs_enabled, gpio_DQ0,
                   gpio_DQ1, gpio_DI, mb_events, oe_coil_on, bit, ctlVars,
                   dbVars, cbVars, qVars, resVars, err, burst, trace, lockVars, reg_info, blink, wifi, twin>>

NextAlarm ==
    \/ on_connection_lost
    \/ \E b \in 1 .. Len(blinker) : morse_blinker_task(b)
    \/ toggle_L59
    \/ toggle_run

SpecAlarm == Init /\ [][NextAlarm]_vars

\* A step in which an interlock handler writes the indicator line: lines 63
\* and 68 of on_oe_button_toggle, lines 318 and 328 of mb_slave_run.
HandlerWritesIndicator ==
    \/ pc["timer"] \in {"L63", "L68"} /\ pc'["timer"] = "idle"
    \/ pc["main"] \in {"L318", "L328"} /\ pc'["main"] = "L287"

\* C18 (blinker ownership): once a blinker has been started after a
\* connectivity-lost notification, no interlock handler writes the indicator
\* line any more.
C18_BlinkerOwnsIndicator == [][blinker # <<>> => ~HandlerWritesIndicator]_vars

(***************************************************************************)
(* Start-up: app_main (lines 336-342), init_services (lines 141-148) and   *)
(* esp32_rio_io_services_init (remote_io.c lines 103-149), statement by    *)
(* statement, every creation and every registration free to fail.          *)
(***************************************************************************)
\* The I/O services before esp32_rio_io_services_init: the static
\* initialisers of remote_io.c lines 49-56.
IoServicesNotStarted ==
    /\ s_button_pressed = FALSE
    /\ timer_active = FALSE
    /\ s_oe_button_toggle_callback = "NULL"
    /\ s_di_level_change_callback = "NULL"
    /\ queue_items = <<>>
    /\ io_pc = "L274"
    /\ io_num = 0
    /\ s_debounce_timer = "NULL"
    /\ s_io_event_queue = "NULL"
    /\ s_io_task_handle = "NULL"
    /\ isr_handlers = {}
    /\ blinker = <<>>
    /\ err = "none"
    /\ burst = [edges |-> 0, toggles |-> 0, late |-> FALSE, expiries |-> 0]
    /\ trace = [accepted |-> <<>>, delivered |-> <<>>]

NoHistory ==
    /\ done' = <<>>
    /\ pre' = [t \in Tasks |-> NoSnap]
    /\ window' = <<>>

\* esp32_rio_io_services_init returns status from its line: the owner is back in
\* init_services at line 143.
InitReturns(status) ==
    /\ err' = status
    /\ pc' = [pc EXCEPT !["main"] = "L143"]

InitGoes(line) ==
    /\ err' = err
    /\ pc' = [pc EXCEPT !["main"] = line]

\* lines 106-110: xQueueCreate; NULL returns ESP_FAIL
init_L106 ==
    /\ pc["main"] = "L106"
    /\ \/ s_io_event_queue' = "valid" /\ InitGoes("L113")
       \/ s_io_event_queue' = "NULL" /\ InitReturns("ESP_FAIL")
    /\ NoHistory
    /\ UNCHANGED <<lineVars, idx, ret, dbVars, cbVars, qVars, s_debounce_timer,
                   s_io_task_handle, isr_handlers, blinker, burst, trace, lockVars, reg_info, blink, wifi, twin>>

\* lines 113-115: gpio_install_isr_service
init_L113 ==
    /\ pc["main"] = "L113"
    /\ InitGoes("L118") \/ InitReturns("ESP_ERR_NO_MEM")
    /\ NoHistory
    /\ UNCHANGED <<lineVars, idx, ret, dbVars, cbVars, qVars, resVars, blinker, burst, trace, lockVars, reg_info, blink, wifi, twin>>

\* lines 118-120: gpio_isr_handler_add(OE_TOGGLE_BTN, ..)
init_L118 ==
    /\ pc["main"] = "L118"
    /\ \/ isr_handlers' = isr_handlers \cup {OE_TOGGLE_BTN} /\ InitGoes("L122")
       \/ isr_handlers' = isr_handlers /\ InitReturns("ESP_ERR_INVALID_STATE")
    /\ idx' = [idx EXCEPT !["main"] = 0]
    /\ NoHistory
    /\ UNCHANGED <<lineVars, ret, dbVars, cbVars, qVars, s_debounce_timer,
                   s_io_event_queue, s_io_task_handle, blinker, burst, trace, lockVars, reg_info, blink, wifi, twin>>

\* lines 121-125: gpio_isr_handler_add(DI[i], ..) for each of the ten inputs
init_L122 ==
    /\ pc["main"] = "L122"
    /\ \/ /\ isr_handlers' = isr_handlers \cup {DI[idx["main"] + 1]}
          /\ IF idx["main"] + 1 < ESP32_RIO_NUM_IO_CHANNELS
             THEN idx' = [idx EXCEPT !["main"] = @ + 1] /\ InitGoes("L122")
             ELSE idx' = [idx EXCEPT !["main"] = 0] /\ InitGoes("L128")
       \/ /\ isr_handlers' = isr_handlers
          /\ idx' = [idx EXCEPT !["main"] = 0]
          /\ InitReturns("ESP_ERR_INVALID_STATE")
    /\ NoHistory
    /\ UNCHANGED <<lineVars, ret, dbVars, cbVars, qVars, s_debounce_timer,
                   s_io_event_queue, s_io_task_handle, blinker, burst, trace, lockVars, reg_info, blink, wifi, twin>>

\* lines 128-133: xTimerCreate; NULL deletes the queue and returns ESP_FAIL
init_L128 ==
    /\ pc["main"] = "L128"
    /\ \/ /\ s_debounce_timer' = "valid"
          /\ UNCHANGED <<s_io_event_queue, queue_items>>
          /\ InitGoes("L136")
       \/ /\ s_debounce_timer' = "NULL"
          /\ s_io_event_queue' = "deleted"
          /\ queue_items' = <<>>
          /\ InitReturns("ESP_FAIL")
    /\ NoHistory
    /\ UNCHANGED <<lineVars, idx, ret, dbVars, cbVars, io_pc, io_num,
                   s_io_task_handle, isr_handlers, blinker, burst, trace, lockVars, reg_info, blink, wifi, twin>>

\* lines 136-137: the two observers are registered
init_L136 ==
    /\ pc["main"] = "L136"
    /\ s_oe_button_toggle_callback' = "on_oe_button_toggle"
    /\ s_di_level_change_callback' = "on_di_level_change"
    /\ InitGoes("L140")
    /\ NoHistory
    /\ UNCHANGED <<lineVars, idx, ret, dbVars, qVars, resVars, blinker, burst, trace, lockVars, reg_info, blink, wifi, twin>>

\* lines 140-148: xTaskCreate(io_task); failure deletes queue and timer and
\* returns ESP_FAIL, success returns ESP_OK
init_L140 ==
    /\ pc["main"] = "L140"
    /\ \/ /\ s_io_task_handle' = "valid"
          /\ UNCHANGED <<s_io_event_queue, s_debounce_timer, queue_items, timer_active>>
          /\ InitReturns("ESP_OK")
       \/ /\ s_io_task_handle' = "NULL"
          /\ s_io_event_queue' = "deleted"
          /\ s_debounce_timer' = "deleted"
          /\ queue_items' = <<>>
          /\ timer_active' = FALSE
          /\ InitReturns("ESP_FAIL")
    /\ NoHistory
    /\ UNCHANGED <<lineVars, idx, ret, s_button_pressed, cbVars, io_pc, io_num,
                   isr_handlers, blinker, burst, trace, lockVars, reg_info, blink, wifi, twin>>

esp32_rio_io_services_init ==
    \/ init_L106
    \/ init_L113
    \/ init_L118
    \/ init_L122
    \/ init_L128
    \/ init_L136
    \/ init_L140

\* init_services with the status always ESP_OK (the test of line 143 left out)
InitServicesReturns_Unchecked(status) == "ESP_OK"

\* init_services lines 142-148: MB_RETURN_ON_FALSE((err == ESP_OK),
\* ESP_ERR_INVALID_STATE, ..); return ESP_OK
InitServicesReturns(status) ==
    IF status = "ESP_OK" THEN "ESP_OK" ELSE "ESP_ERR_INVALID_STATE"

\* app_main line 339: ESP_ERROR_CHECK(init_services()) aborts on any status
\* but ESP_OK; otherwise app_main goes on to line 342.
app_L339 ==
    /\ pc["main"] = "L143"
    /\ Goto("main", IF InitServicesReturns(err) = "ESP_OK" THEN "connect" ELSE "abort")
    /\ NoHistory
    /\ UNCHANGED <<lineVars, rioVars, burst, trace, lockVars, reg_info, blink, wifi, twin>>

\* app_main lines 342, 355-357: esp32_rio_connect() returned false
app_main_not_connected ==
    /\ pc["main"] = "connect"
    /\ Goto("main", "L357")
    /\ NoHistory
    /\ UNCHANGED <<lineVars, rioVars, burst, trace, lockVars, reg_info, blink, wifi, twin>>

NextStart ==
    \/ esp32_rio_io_services_init
    \/ app_L339
    \/ app_main_connected
    \/ app_main_not_connected
    \/ setup_reg_data
    \/ \E i \in {0} : input_edge(i)
    \/ io_task

\* app_main has run esp32_rio_configure_gpio and init_services is at line 142.
InitStart == InterlockInitAt("L106") /\ IoServicesNotStarted

SpecStart == InitStart /\ [][NextStart]_vars

\* esp32_rio_io_services_init has returned after a creation failed: the queue
\* was not created, or it was deleted again at line 131 or 143.
CreationFailed ==
    /\ pc["main"] \notin {"L106", "L113", "L118", "L122", "L128", "L136", "L140"}
    /\ s_io_event_queue \in {"NULL", "deleted"}

\* The main task is in mb_slave_init or in the loop of mb_slave_run.
InBridge == pc["main"] \notin {"L106", "L113", "L118", "L122", "L128", "L136", "L140",
                               "L143", "connect", "abort", "L357"}

\* C19 (fatal start-up errors): when the creation of the event queue, of the
\* debounce timer or of the consumer task has failed,
\* esp32_rio_io_services_init has returned a failure status and app_main
\* aborts: it is at the check of the status or aborted, never in the bridge,
\* and outputs_enabled is still false.
C19_FatalStartup ==
    CreationFailed =>
        /\ err = "ESP_FAIL"
        /\ pc["main"] \in {"L143", "abort"}
        /\ ~InBridge
        /\ ~outputs_enabled

\* The timer could not be created: the queue was deleted again, the handlers
\* stay hooked, and app_main has aborted.
C19_Witness ==
    /\ pc["main"] = "abort"
    /\ s_io_event_queue = "deleted"
    /\ s_debounce_timer = "NULL"
    /\ isr_handlers = AllHandlers
    /\ err = "ESP_FAIL"

(***************************************************************************)
(* Teardown: esp32_rio_connect has failed, app_main calls destroy_services *)
(* (line 357), which ends in esp32_rio_io_services_deinit (remote_io.c     *)
(* lines 155-189), run statement by statement by the main task while the   *)
(* interrupt handler, io_task and the timer service task go on.            *)
(***************************************************************************)
\* app_main line 357, destroy_services lines 153-177: the call of the deinit
app_L357 ==
    /\ pc["main"] = "L357"
    /\ Goto("main", "L156")
    /\ NoHistory
    /\ UNCHANGED <<lineVars, rioVars, burst, trace, lockVars, reg_info, blink, wifi, twin>>

\* esp32_rio_io_services_deinit returns status: destroy_services line 178
DeinitReturns(status) ==
    /\ err' = status
    /\ pc' = [pc EXCEPT !["main"] = "L178"]

\* line 156: s_oe_button_toggle_callback = NULL
deinit_L156 ==
    /\ pc["main"] = "L156"
    /\ s_oe_button_toggle_callback' = "NULL"
    /\ InitGoes("L157")
    /\ NoHistory
    /\ UNCHANGED <<lineVars, idx, ret, dbVars, s_di_level_change_callback, qVars,
                   resVars, blinker, burst, trace, lockVars, reg_info, blink, wifi, twin>>

\* line 157: s_di_level_change_callback = NULL
deinit_L157 ==
    /\ pc["main"] = "L157"
    /\ s_di_level_change_callback' = "NULL"
    /\ InitGoes("L159")
    /\ NoHistory
    /\ UNCHANGED <<lineVars, idx, ret, dbVars, s_oe_button_toggle_callback, qVars,
                   resVars, blinker, burst, trace, lockVars, reg_info, blink, wifi, twin>>

\* lines 159-161: gpio_isr_handler_remove(OE_TOGGLE_BTN)
deinit_L159 ==
    /\ pc["main"] = "L159"
    /\ \/ isr_handlers' = isr_handlers \ {OE_TOGGLE_BTN} /\ InitGoes("L163")
       \/ isr_handlers' = isr_handlers /\ DeinitReturns("ESP_ERR_INVALID_STATE")
    /\ idx' = [idx EXCEPT !["main"] = 0]
    /\ NoHistory
    /\ UNCHANGED <<lineVars, ret, dbVars, cbVars, qVars, s_debounce_timer,
                   s_io_event_queue, s_io_task_handle, blinker, burst, trace, lockVars, reg_info, blink, wifi, twin>>

\* lines 162-168: gpio_isr_handler_remove(DI[i]) for each of the ten inputs,
\* then gpio_uninstall_isr_service
deinit_L163 ==
    /\ pc["main"] = "L163"
    /\ \/ /\ isr_handlers' = isr_handlers \ {DI[idx["main"] + 1]}
          /\ IF idx["main"] + 1 < ESP32_RIO_NUM_IO_CHANNELS
             THEN idx' = [idx EXCEPT !["main"] = @ + 1] /\ InitGoes("L163")
             ELSE idx' = [idx EXCEPT !["main"] = 0] /\ InitGoes("L170")
       \/ /\ isr_handlers' = isr_handlers
          /\ idx' = [idx EXCEPT !["main"] = 0]
          /\ DeinitReturns("ESP_ERR_INVALID_STATE")
    /\ NoHistory
    /\ UNCHANGED <<lineVars, ret, dbVars, cbVars, qVars, s_debounce_timer,
                   s_io_event_queue, s_io_task_handle, blinker, burst, trace, lockVars, reg_info, blink, wifi, twin>>

\* lines 170-176: the timer is stopped if active, deleted, and its handle zeroed
deinit_L170 ==
    /\ pc["main"] = "L170"
    /\ timer_active' = FALSE
    /\ s_debounce_timer' = "NULL"
    /\ InitGoes("L178d")
    /\ NoHistory
    /\ UNCHANGED <<lineVars, idx, ret, s_button_pressed, cbVars, qVars,
                   s_io_event_queue, s_io_task_handle, isr_handlers, blinker, burst, trace, lockVars, reg_info, blink, wifi, twin>>

\* lines 178-181: vTaskDelete(s_io_task_handle); s_io_task_handle = NULL
deinit_L178 ==
    /\ pc["main"] = "L178d"
    /\ s_io_task_handle' = "NULL"
    /\ InitGoes("L183")
    /\ NoHistory
    /\ UNCHANGED <<lineVars, idx, ret, dbVars, cbVars, qVars, s_debounce_timer,
                   s_io_event_queue, isr_handlers, blinker, burst, trace, lockVars, reg_info, blink, wifi, twin>>

\* lines 183-188: vQueueDelete(s_io_event_queue); s_io_event_queue = NULL;
\* return ESP_OK
deinit_L183 ==
    /\ pc["main"] = "L183"
    /\ s_io_event_queue' = "NULL"
    /\ queue_items' = <<>>
    /\ DeinitReturns("ESP_OK")
    /\ NoHistory
    /\ UNCHANGED <<lineVars, idx, ret, dbVars, cbVars, io_pc, io_num, s_debounce_timer,
                   s_io_task_handle, isr_handlers, blinker, burst, trace, lockVars, reg_info, blink, wifi, twin>>

esp32_rio_io_services_deinit ==
    \/ deinit_L156
    \/ deinit_L157
    \/ deinit_L159
    \/ deinit_L163
    \/ deinit_L170
    \/ deinit_L178
    \/ deinit_L183

\* destroy_services lines 178-183 and ESP_ERROR_CHECK at app_main line 357
app_L357_check ==
    /\ pc["main"] = "L178"
    /\ Goto("main", IF err = "ESP_OK" THEN "L359" ELSE "abort")
    /\ NoHistory
    /\ UNCHANGED <<lineVars, rioVars, burst, trace, lockVars, reg_info, blink, wifi, twin>>

\* app_main line 359: esp32_rio_start_morse_blinker(), and app_main returns
app_L359 ==
    /\ pc["main"] = "L359"
    /\ esp32_rio_start_morse_blinker
    /\ Goto("main", "end")
    /\ NoHistory
    /\ UNCHANGED <<lineVars, dbVars, cbVars, qVars, resVars, err, burst, trace, lockVars, reg_info, blink, wifi, twin>>

\* lines 303-304 and 284-285 read the observer pointer unlocked while line 156
\* or 157 writes it.  A build that reads it once calls the observer it has
\* tested (cb_L304, io_L285); a build that reads it again at the call jumps
\* through NULL and the firmware panics:
cb_L304_null ==
    /\ pc["timer"] = "cb_L304"
    /\ s_oe_button_toggle_callback = "NULL"
    /\ Goto("timer", "panic")
    /\ NoHistory
    /\ UNCHANGED <<lineVars, rioVars, burst, trace, lockVars, reg_info, blink, wifi, twin>>

io_L285_null ==
    /\ s_io_task_handle = "valid"
    /\ io_pc = "L285"
    /\ s_di_level_change_callback = "NULL"
    /\ io_pc' = "panic"
    /\ NoHistory
    /\ UNCHANGED <<lineVars, ctlVars, dbVars, cbVars, queue_items, io_num, sysVars, burst, trace, lockVars, reg_info, blink, wifi, twin>>

\* Queue entries that the model lets wait while the teardown runs.
MaxWaiting == 2

\* The events around the teardown: edges on input 0 while fewer than
\* MaxWaiting entries wait; a first press of the button, and a press with the
\* debouncer at rest whenever the outputs are enabled.
stop_input_edge == Len(queue_items) < MaxWaiting /\ input_edge(0)

stop_button_edge ==
    /\ ~timer_active
    /\ pc["timer"] = "idle"
    /\ burst.edges = 0 \/ outputs_enabled
    /\ io_isr_handler_button

NextStop ==
    \/ app_main_not_connected
    \/ app_L357
    \/ esp32_rio_io_services_deinit
    \/ app_L357_check
    \/ app_L359
    \/ \E b \in 1 .. Len(blinker) : morse_blinker_task(b)
    \/ stop_input_edge
    \/ io_task
    \/ io_L285_null
    \/ stop_button_edge
    \/ debounce_timer_expire
    \/ debounce_timer_callback
    \/ cb_L304_null
    \/ toggle_run

SpecStop == Init /\ [][NextStop]_vars

\* esp32_rio_io_services_deinit has returned ESP_OK.
StopSucceeded == pc["main"] \in {"L178", "L359", "end"} /\ err = "ESP_OK"

\* Everything esp32_rio_io_services_init set up is gone.
StopReleases ==
    StopSucceeded =>
        /\ s_oe_button_toggle_callback = "NULL"
        /\ s_di_level_change_callback = "NULL"
        /\ isr_handlers = {}
        /\ s_debounce_timer = "NULL"
        /\ ~timer_active
        /\ s_io_task_handle = "NULL"
        /\ s_io_event_queue = "NULL"

\* A step that invokes an observer is taken with that observer registered.
NoCallOnceUnregistered ==
    /\ (pc["timer"] = "cb_L304" /\ pc'["timer"] \notin {"cb_L304", "panic"})
           => s_oe_button_toggle_callback # "NULL"
    /\ (io_pc = "L285" /\ io_pc' = "L274")
           => s_di_level_change_callback # "NULL"

\* C20 (stop reverses start): after esp32_rio_io_services_deinit has returned
\* success both observers are unregistered, the interrupt handlers removed,
\* the timer stopped and deleted, the consumer task and the queue deleted;
\* and once an observer is unregistered it is never invoked again, also when
\* a timer expiry or a queue entry was being processed as stop() was called.
C20_StopReversesStart == []StopReleases /\ [][NoCallOnceUnregistered]_vars

(***************************************************************************)
(* esp32_rio_configure_gpio (remote_io.c lines 62-97), the first statement *)
(* of app_main (line 337), on the full board.  Nothing else runs yet: no   *)
(* interrupt handler is hooked and no task but app_main exists.            *)
(***************************************************************************)
\* Levels the output lines of one bank may hold before they are configured.
PowerOnLevels ==
    {[i \in AllChannels |-> 0],
     [i \in AllChannels |-> 1],
     [i \in AllChannels |-> i % 2],
     [i \in AllChannels |-> IF i = ESP32_RIO_NUM_IO_CHANNELS - 1 THEN 1 ELSE 0]}

\* The level written with a high indicator in place of line 88.
ConfiguredLevel_LedOn(line) == IF line = "STATUS_LED" THEN 1 ELSE 0

\* lines 88, 94, 95: gpio_set_level(STATUS_LED, 0), gpio_set_level(DQ0[i], 0),
\* gpio_set_level(DQ1[i], 0)
ConfiguredLevel(line) == 0

\* app_main is at line 337; the statics hold their initialisers (lines 49-55
\* of esp32_rio_modbus_tcp_slave.c, lines 49-56 of remote_io.c).
InitConfigure ==
    /\ coil_reg_params = [coils_bank0 |-> 0, coils_bank1 |-> 0]
    /\ discrete_reg_params = [discrete_inputs |-> 0]
    /\ outputs_enabled = FALSE
    /\ gpio_DQ0 \in PowerOnLevels
    /\ gpio_DQ1 \in PowerOnLevels
    /\ gpio_STATUS_LED \in {0, 1}
    /\ gpio_DI = [i \in AllChannels |-> i % 2]
    /\ mb_events = 0
    /\ pc = [t \in Tasks |-> IF t = "timer" THEN "idle" ELSE "L337"]
    /\ idx = [t \in Tasks |-> 0]
    /\ bit = [t \in Tasks |-> FALSE]
    /\ ret = [t \in Tasks |-> "none"]
    /\ oe_coil_on = FALSE
    /\ pre = [t \in Tasks |-> NoSnap]
    /\ done = <<>>
    /\ window = <<>>
    /\ LockInit
    /\ reg_info = Uninitialised
    /\ BlinkInit
    /\ WifiInit
    /\ twin = NoTwin
    /\ IoServicesNotStarted

\* The call of esp32_rio_configure_gpio from position from; lines 64-87 set
\* pin modes and interrupt types and write no level.
ConfigureCall(from, r) ==
    /\ pc["main"] = from
    /\ pc' = [pc EXCEPT !["main"] = "cfg_L88"]
    /\ ret' = [ret EXCEPT !["main"] = r]
    /\ pre' = [pre EXCEPT !["main"] = <<Obs>>]
    /\ done' = <<>>
    /\ UNCHANGED <<lineVars, idx, window, rioVars, burst, trace, lockVars, reg_info, blink, wifi, twin>>

\* app_main line 337
app_L337 == ConfigureCall("L337", "L338")

\* one more call of esp32_rio_configure_gpio after the first has returned
configure_again == ConfigureCall("L338", "twice")

\* line 88: gpio_set_level(STATUS_LED, 0)
cfg_L88 ==
    /\ pc["main"] = "cfg_L88"
    /\ gpio_STATUS_LED' = ConfiguredLevel("STATUS_LED")
    /\ pc' = [pc EXCEPT !["main"] = "cfg_L94"]
    /\ idx' = [idx EXCEPT !["main"] = 0]
    /\ done' = <<>>
    /\ UNCHANGED <<coil_reg_params, discrete_reg_params, outputs_enabled, gpio_DQ0,
                   gpio_DQ1, gpio_DI, mb_events, oe_coil_on, bit, ret, pre, window,
                   rioVars, burst, trace, lockVars, reg_info, blink, wifi, twin>>

\* line 94: gpio_set_level(DQ0[i], 0)
cfg_L94 ==
    /\ pc["main"] = "cfg_L94"
    /\ gpio_DQ0' = [gpio_DQ0 EXCEPT ![idx["main"]] = ConfiguredLevel("DQ0")]
    /\ pc' = [pc EXCEPT !["main"] = "cfg_L95"]
    /\ done' = <<>>
    /\ UNCHANGED <<coil_reg_params, discrete_reg_params, outputs_enabled,
                   gpio_DQ1, gpio_STATUS_LED, gpio_DI, mb_events, oe_coil_on, bit,
                   idx, ret, pre, window, rioVars, burst, trace, lockVars, reg_info, blink, wifi, twin>>

\* line 95: gpio_set_level(DQ1[i], 0); line 90: ++i, and after the last
\* iteration the function returns
cfg_L95 ==
    /\ pc["main"] = "cfg_L95"
    /\ gpio_DQ1' = [gpio_DQ1 EXCEPT ![idx["main"]] = ConfiguredLevel("DQ1")]
    /\ IF idx["main"] + 1 < ESP32_RIO_NUM_IO_CHANNELS
       THEN /\ pc' = [pc EXCEPT !["main"] = "cfg_L94"]
            /\ idx' = [idx EXCEPT !["main"] = @ + 1]
            /\ UNCHANGED <<ret, pre>>
            /\ done' = <<>>
       ELSE /\ pc' = [pc EXCEPT !["main"] = ret["main"]]
            /\ idx' = [idx EXCEPT !["main"] = 0]
            /\ ret' = [ret EXCEPT !["main"] = "none"]
            /\ pre' = [pre EXCEPT !["main"] = NoSnap]
            /\ done' = <<[task |-> "main", path |-> "configure_gpio",
                          pre |-> pre["main"][1], again |-> ret["main"] = "twice"]>>
    /\ UNCHANGED <<coil_reg_params, discrete_reg_params, outputs_enabled,
                   gpio_DQ0, gpio_STATUS_LED, gpio_DI, mb_events, oe_coil_on, bit,
                   window, rioVars, burst, trace, lockVars, reg_info, blink, wifi, twin>>

esp32_rio_configure_gpio == cfg_L88 \/ cfg_L94 \/ cfg_L95

NextConfigure ==
    \/ app_L337
    \/ configure_again
    \/ esp32_rio_configure_gpio

SpecConfigure == InitConfigure /\ [][NextConfigure]_vars

\* esp32_rio_configure_gpio has just returned.
ConfigureRan == done # <<>> /\ done[1].path = "configure_gpio"

\* C21 (configure): in the state esp32_rio_configure_gpio returns to, all 20
\* output lines are off, the indicator is off and outputs_enabled is false;
\* a second call returns to the very state it was made in, which is the state
\* after the first call.
C21_ConfigureSafe ==
    ConfigureRan =>
        /\ \A k \in AllChannels : gpio_DQ0[k] = 0 /\ gpio_DQ1[k] = 0
        /\ gpio_STATUS_LED = 0
        /\ ~outputs_enabled
        /\ done[1].again => Obs = done[1].pre

\* A second call has been made in the state the first call left, with every
\* line of bank 0 and the indicator low, and has returned.
C21_Witness ==
    /\ ConfigureRan
    /\ done[1].again
    /\ pc["main"] = "twice"
    /\ done[1].pre.led = 0
    /\ \A k \in AllChannels : done[1].pre.DQ0[k] = 0

(***************************************************************************)
(* Delivery of input events: the interrupt handler, the queue and io_task  *)
(* with the services running.  trace records every edge the queue took,    *)
(* with the level the line had right after the edge, and every call of the *)
(* observer, with the level it sampled.                                    *)
(***************************************************************************)
\* Input edges that the model lets the queue take in one behaviour.
MaxAccepted == 4

\* xQueueSendFromISR took the item: the handler is hooked and the queue has room.
Accepted(i) == DI[i + 1] \in isr_handlers /\ Len(queue_items) < QueueLength

deliver_edge(i) ==
    /\ Len(trace.accepted) < MaxAccepted
    /\ IsrInput(i)
    /\ trace' = IF Accepted(i)
                THEN [trace EXCEPT !.accepted =
                         Append(@, [input |-> i, level |-> 1 - gpio_DI[i]])]
                ELSE trace
    /\ UNCHANGED <<lockVars, reg_info, blink, wifi, twin>>

deliver_call ==
    /\ ObserverCall
    /\ trace' = [trace EXCEPT !.delivered =
                    Append(@, [input |-> InputOfGpio(io_num),
                               level |-> Level(esp32_rio_is_input_on(InputOfGpio(io_num)))])]
    /\ UNCHANGED <<lockVars, reg_info, blink, wifi, twin>>

\* Everything io_task does.
ConsumerTask == io_L274 \/ io_L279 \/ deliver_call

NextDeliver ==
    \/ \E i \in EdgeInputs : deliver_edge(i)
    \/ io_L274
    \/ io_L279
    \/ deliver_call

\* io_task is a FreeRTOS task of priority 10 that is ready whenever the queue
\* holds an entry or an entry is being processed: the scheduler runs it.
SpecDeliver == Init /\ [][NextDeliver]_vars /\ WF_vars(ConsumerTask)

\* The entry io_task has received and not yet passed to the observer.
InFlight == IF io_pc = "L274" THEN 0 ELSE 1

\* Every edge the queue took is delivered, in flight or waiting, nothing
\* else is; the calls made are for the inputs of the first edges taken, in
\* their order; the bit a call has just written is the level it sampled,
\* which is the level of the line now.
InOrderOnce ==
    /\ Len(trace.delivered) + InFlight + Len(queue_items) = Len(trace.accepted)
    /\ \A k \in 1 .. Len(trace.delivered) :
           trace.delivered[k].input = trace.accepted[k].input
    /\ ObserverRan =>
           LET last == trace.delivered[Len(trace.delivered)] IN
           /\ TestBit(discrete_reg_params.discrete_inputs, last.input) = (last.level = 1)
           /\ last.level = gpio_DI[last.input]

\* C22 (delivery): with the services running, every input edge the queue has
\* taken leads, under fairness of io_task, to one call of the observer with
\* the index of its channel; the calls are made in the order of the queue,
\* one per entry; the level a call writes is the one it reads when it runs.
C22_Delivery ==
    /\ []InOrderOnce
    /\ \A n \in 1 .. MaxAccepted :
           (Len(trace.accepted) >= n) ~> (Len(trace.delivered) >= n)

\* MaxAccepted edges on both inputs have all been delivered, and one call
\* wrote a level other than the one its edge had produced: the line had
\* changed again before the entry was processed.
C22_Witness ==
    /\ Len(trace.accepted) = MaxAccepted
    /\ Len(trace.delivered) = MaxAccepted
    /\ \E j, k \in 1 .. MaxAccepted : trace.delivered[j].input # trace.delivered[k].input
    /\ \E k \in 1 .. MaxAccepted : trace.delivered[k].level # trace.accepted[k].level

(***************************************************************************)
(* The partition of the coil addresses over the two output banks, read off *)
(* update_digital_outputs on the full board (SpecCoilMap).                 *)
(***************************************************************************)
\* Coil addresses of the two words of coil_reg_params.
CoilAddrs == 0 .. (2 * BankBits - 1)

\* The outputs, <<bank, index>>, that update_digital_outputs drives from coil
\* address a (lines 93 and 99).
OutputsOfCoil(a) ==
    {o \in {0, 1} \X AllChannels : CoilOfOutput(o[1], o[2]) = a}

\* The level of output <<bank, index>>.
LineLevel(o) == IF o[1] = 0 THEN gpio_DQ0[o[2]] ELSE gpio_DQ1[o[2]]

\* A run of update_digital_outputs has just returned.
UpdateRan == done # <<>> /\ done[1].path = "update"

\* C23 as stated (partition with N = 10 outputs per bank): addresses 0..9
\* drive bank 0 at index = address, addresses 10..19 drive bank 1 at index =
\* address - 10, and the address right above, 20, is the interlock mirror bit.
C23_PartitionAsStated ==
    /\ OE_COIL_ADDR = 2 * ESP32_RIO_NUM_IO_CHANNELS
    /\ UpdateRan =>
           \A a \in 0 .. (2 * ESP32_RIO_NUM_IO_CHANNELS - 1) :
               LET o == IF a < ESP32_RIO_NUM_IO_CHANNELS
                        THEN <<0, a>>
                        ELSE <<1, a - ESP32_RIO_NUM_IO_CHANNELS>> IN
               LineLevel(o) = Level(MB_IS_COIL_ON(coil_reg_params, a))

\* C23 amended (partition by 16-bit bank): addresses 0..9 drive bank 0 at
\* index = address, addresses 16..25 drive bank 1 at index = address - 16,
\* every other address (10..15, 26..30 and the mirror bit 31) drives no
\* output; after a run of update_digital_outputs every output has the level
\* of its coil.
C23_PartitionByWord ==
    /\ \A a \in CoilAddrs :
           OutputsOfCoil(a) =
               IF a < ESP32_RIO_NUM_IO_CHANNELS
               THEN {<<0, a>>}
               ELSE IF a >= BankBits /\ a < BankBits + ESP32_RIO_NUM_IO_CHANNELS
                    THEN {<<1, a - BankBits>>}
                    ELSE {}
    /\ OutputsOfCoil(OE_COIL_ADDR) = {}
    /\ UpdateRan =>
           \A a \in CoilAddrs : \A o \in OutputsOfCoil(a) :
               LineLevel(o) = Level(MB_IS_COIL_ON(coil_reg_params, a))

\* update_digital_outputs has run with coil 10 and coil 16 set and nothing
\* else: output 0 of bank 1 is on (coil 16), no other output is.
C23_Witness ==
    /\ UpdateRan
    /\ coil_reg_params = [coils_bank0 |-> 1024, coils_bank1 |-> 1]
    /\ gpio_DQ1[0] = 1
    /\ \A k \in AllChannels : gpio_DQ0[k] = 0
    /\ \A k \in AllChannels \ {0} : gpio_DQ1[k] = 0

(***************************************************************************)
(* param_lock.  on_di_level_change (lines 74-82) runs in io_task and       *)
(* updates discrete_inputs inside portENTER_CRITICAL / portEXIT_CRITICAL;  *)
(* setup_reg_data (lines 187-200) runs in the main task, from mb_slave_init*)
(* line 254, while the I/O services already run, and takes no lock.  An    *)
(* update `word |= mask` or `word &= ~mask` is a load, an operation on a   *)
(* register and a store.                                                   *)
(***************************************************************************)
\* Edges on the modelled inputs while fewer than MaxWaiting entries wait.
lock_input_edge(i) == Len(queue_items) < MaxWaiting /\ input_edge(i)

\* line 75: portENTER_CRITICAL(&param_lock) spins until the lock is free
di_L75 ==
    /\ s_io_task_handle = "valid"
    /\ io_pc = "L285"
    /\ param_lock = {}
    /\ param_lock' = {"io_task"}
    /\ io_pc' = "L76"
    /\ NoHistory
    /\ UNCHANGED <<lineVars, ctlVars, dbVars, cbVars, queue_items, io_num, sysVars,
                   burst, trace, reg, reg_info, blink, wifi, twin>>

\* lines 76-79: the line is sampled, the word loaded and the bit set or
\* cleared in the register
di_L76 ==
    /\ io_pc = "L76"
    /\ reg' = [reg EXCEPT !["io_task"] =
                  DiscreteInputsAfter(discrete_reg_params.discrete_inputs,
                                      InputOfGpio(io_num),
                                      esp32_rio_is_input_on(InputOfGpio(io_num)))]
    /\ io_pc' = "L77"
    /\ NoHistory
    /\ UNCHANGED <<lineVars, ctlVars, dbVars, cbVars, queue_items, io_num, sysVars,
                   burst, trace, param_lock, reg_info, blink, wifi, twin>>

\* lines 77/79: the register is stored to discrete_inputs
di_L77 ==
    /\ io_pc = "L77"
    /\ discrete_reg_params' = [discrete_reg_params EXCEPT !.discrete_inputs = reg["io_task"]]
    /\ io_pc' = "L81"
    /\ NoHistory
    /\ UNCHANGED <<coil_reg_params, outputs_enabled, gpio_DQ0, gpio_DQ1,
                   gpio_STATUS_LED, gpio_DI, mb_events, oe_coil_on, bit, ctlVars,
                   dbVars, cbVars, queue_items, io_num, sysVars, burst, trace, lockVars, reg_info, blink, wifi, twin>>

\* line 81: portEXIT_CRITICAL(&param_lock); the observer returns, line 288
di_L81 ==
    /\ io_pc = "L81"
    /\ param_lock' = param_lock \ {"io_task"}
    /\ reg' = [reg EXCEPT !["io_task"] = 0]
    /\ io_pc' = "L274"
    /\ done' = <<[task |-> "io_task", path |-> "on_di_level_change",
                  input |-> InputOfGpio(io_num)]>>
    /\ pre' = [t \in Tasks |-> NoSnap]
    /\ window' = <<>>
    /\ UNCHANGED <<lineVars, ctlVars, dbVars, cbVars, queue_items, io_num, sysVars,
                   burst, trace, reg_info, blink, wifi, twin>>

on_di_level_change_locked == di_L75 \/ di_L76 \/ di_L77 \/ di_L81

\* lines 193-197: input i is sampled, discrete_inputs loaded and bit i set or
\* cleared in the register
setup_L194 ==
    /\ pc["main"] = "L193"
    /\ reg' = [reg EXCEPT !["main"] =
                  DiscreteInputsAfter(discrete_reg_params.discrete_inputs,
                                      idx["main"],
                                      esp32_rio_is_input_on(idx["main"]))]
    /\ pc' = [pc EXCEPT !["main"] = "L195"]
    /\ NoHistory
    /\ UNCHANGED <<lineVars, idx, ret, rioVars, burst, trace, param_lock, reg_info, blink, wifi, twin>>

\* lines 195/197: the register is stored to discrete_inputs; line 193: i++
setup_L195 ==
    /\ pc["main"] = "L195"
    /\ discrete_reg_params' = [discrete_reg_params EXCEPT !.discrete_inputs = reg["main"]]
    /\ reg' = [reg EXCEPT !["main"] = 0]
    /\ IF idx["main"] + 1 < NumChannels
       THEN /\ pc' = [pc EXCEPT !["main"] = "L193"]
            /\ idx' = [idx EXCEPT !["main"] = @ + 1]
       ELSE /\ pc' = [pc EXCEPT !["main"] = "L287"]
            /\ idx' = [idx EXCEPT !["main"] = 0]
    /\ NoHistory
    /\ UNCHANGED <<coil_reg_params, outputs_enabled, gpio_DQ0, gpio_DQ1,
                   gpio_STATUS_LED, gpio_DI, mb_events, oe_coil_on, bit, ret,
                   rioVars, burst, trace, param_lock, reg_info, blink, wifi, twin>>

NextLock ==
    \/ app_main_connected
    \/ setup_L189
    \/ setup_L190
    \/ setup_L194
    \/ setup_L195
    \/ \E i \in EdgeInputs : lock_input_edge(i)
    \/ io_L274
    \/ io_L279
    \/ on_di_level_change_locked

SpecLock == Init /\ [][NextLock]_vars

\* Context c is at a statement that reads or writes one of the bitfields.
AtAccess(c) ==
    IF c = "main"
    THEN pc["main"] \in {"L189", "L190", "L193", "L195"}
    ELSE io_pc \in {"L76", "L77"}

\* Context c is inside the operation that takes the lock.
InOperation(c) ==
    IF c = "main"
    THEN pc["main"] \in {"L189", "L190", "L193", "L195"}
    ELSE io_pc \in {"L76", "L77", "L81"}

\* C24 (lock discipline): a context that is about to read or write
\* coils_bank0, coils_bank1 or discrete_inputs holds param_lock, also in the
\* register initialisation at start-up; at most one context is inside a
\* critical section; no context holds the lock outside its operation.
C24_LockDiscipline ==
    /\ \A c \in Updaters : AtAccess(c) => c \in param_lock
    /\ Cardinality(param_lock) <= 1
    /\ \A c \in param_lock : InOperation(c)

\* A step that changes discrete_inputs is the store of the observer.
OnlyConsumerWrites ==
    discrete_reg_params' # discrete_reg_params => (io_pc = "L77" /\ io_pc' = "L81")

\* With the registers initialised, the queue empty and io_task waiting, each
\* bit of discrete_inputs is the level of its line.
MirrorAtRest ==
    (pc["main"] = "L287" /\ queue_items = <<>> /\ io_pc = "L274") =>
        \A k \in Channels :
            TestBit(discrete_reg_params.discrete_inputs, k) = (gpio_DI[k] = 1)

\* C25 (single writer): discrete_inputs is modified by the observer of io_task
\* and by nothing else, so no update of the observer is overwritten: once the
\* queue has drained every bit shows the level of its line.
C25_SingleWriter == [][OnlyConsumerWrites]_vars /\ []MirrorAtRest

(***************************************************************************)
(* Edge capture: io_isr_handler for the inputs and for the button, beside  *)
(* everything that consumes what it leaves: io_task, the debounce timer,   *)
(* its callback and on_oe_button_toggle.                                   *)
(***************************************************************************)
NextCapture ==
    \/ stop_input_edge
    \/ io_isr_handler_button
    \/ io_task
    \/ debounce_timer_expire
    \/ debounce_timer_callback
    \/ toggle_run

SpecCapture == Init /\ [][NextCapture]_vars

\* The registers, the interlock, the outputs, the indicator and the position
\* of every task are left as they are.
CaptureKeeps ==
    UNCHANGED <<coil_reg_params, discrete_reg_params, outputs_enabled, gpio_DQ0,
                gpio_DQ1, gpio_STATUS_LED, pc, io_pc, io_num, cbVars, resVars>>

\* The step is a run of io_isr_handler for input line i: the line has changed.
InputIsrStep(i) == gpio_DI'[i] # gpio_DI[i]

\* The step is a run of io_isr_handler for the button: the history of the
\* window counts one more edge, or a new window has begun.
ButtonIsrStep == burst'.edges # burst.edges \/ burst'.expiries < burst.expiries

\* What a run of the interrupt handler may touch.
CaptureFrame ==
    /\ \A i \in Channels :
           InputIsrStep(i) =>
               /\ queue_items' \in {queue_items, Append(queue_items, DI[i + 1])}
               /\ UNCHANGED <<s_button_pressed, timer_active>>
               /\ CaptureKeeps
    /\ ButtonIsrStep =>
           /\ s_button_pressed'
           /\ timer_active'
           /\ UNCHANGED <<queue_items, gpio_DI>>
           /\ CaptureKeeps

\* The GPIO number of the button is neither waiting in the queue nor held by
\* io_task.
ButtonNeverQueued ==
    /\ \A k \in 1 .. Len(queue_items) : queue_items[k] # OE_TOGGLE_BTN
    /\ io_num # OE_TOGGLE_BTN

\* C26 (edge capture frame): a run of the interrupt handler for an input
\* only appends the GPIO number of that input to the queue, or drops it, and
\* leaves the pending flag, the timer, the registers, the interlock and the
\* outputs alone; a run for the button only sets the pending flag and starts
\* or restarts the timer and enqueues nothing: the number of the button is
\* never in the queue.
C26_CaptureFrame == []ButtonNeverQueued /\ [][CaptureFrame]_vars

\* The handler has just run for an input while a button press was pending
\* with the timer running: its number is at the tail of the queue, behind an
\* earlier entry, and the flag and the timer are as they were.
C26_Witness ==
    /\ IsrRan
    /\ s_button_pressed
    /\ timer_active
    /\ burst.edges >= 2
    /\ Len(queue_items) = 2
    /\ queue_items[2] = done[1].gpio_num
    /\ outputs_enabled

(***************************************************************************)
(* The debouncer as a state machine, step by step (SpecDebounce), with     *)
(* edges that arrive while the timer runs, while the callback executes and *)
(* while the toggle handler executes.                                      *)
(***************************************************************************)
\* The positions of the timer service task inside on_oe_button_toggle.
InToggleHandler(line) ==
    line \in {"L60", "L61", "L63", "L66", "L67", "L68",
              "upd_r0", "upd_w0", "upd_r1", "upd_w1", "dis_w0", "dis_w1"}

\* The step emits a toggle event: on_oe_button_toggle is entered.
ToggleEmitted == ~InToggleHandler(pc["timer"]) /\ InToggleHandler(pc'["timer"])

DebounceSteps ==
    \* an event is emitted by line 304 of the callback and by nothing else
    /\ ToggleEmitted =>
           /\ pc["timer"] = "cb_L304"
           /\ burst'.toggles = burst.toggles + 1
    /\ burst'.toggles > burst.toggles => ToggleEmitted
    \* the callback is entered by an expiry of the timer and by nothing else
    /\ (pc["timer"] # "cb_L297" /\ pc'["timer"] = "cb_L297") =>
           /\ timer_active
           /\ burst'.expiries = burst.expiries + 1
    \* line 297: flag set - the flag is cleared next and the event follows;
    \* flag clear - the callback returns and nothing is emitted or changed
    /\ (pc["timer"] = "cb_L297" /\ pc'["timer"] # "cb_L297") =>
           /\ pc'["timer"] = (IF s_button_pressed THEN "cb_L299" ELSE "idle")
           /\ UNCHANGED <<lineVars, s_button_pressed, timer_active, burst>>
    /\ (pc["timer"] = "cb_L299" /\ pc'["timer"] # "cb_L299") =>
           /\ ~s_button_pressed'
           /\ pc'["timer"] = "cb_L303"
    /\ (pc["timer"] = "cb_L303" /\ pc'["timer"] # "cb_L303") =>
           pc'["timer"] = "cb_L304"
    \* an edge: flag set, timer started or restarted, no event, and the timer
    \* service task is where it was
    /\ ButtonIsrStep =>
           /\ s_button_pressed'
           /\ timer_active'
           /\ ~ToggleEmitted
           /\ burst'.toggles <= burst.toggles
           /\ UNCHANGED <<lineVars, pc>>

\* Since the window opened no more events were emitted than the timer has
\* expired, and the timer has expired no more often than edges have armed it.
TogglesWithinExpiries ==
    /\ burst.toggles <= burst.expiries
    /\ burst.expiries <= burst.edges

\* C27 (debounce state machine): a toggle event is emitted only by line 304
\* of the timer callback; the callback, entered by an expiry only, clears a
\* set flag and emits one event, and emits nothing for a clear flag; an edge
\* sets the flag and starts or restarts the timer and emits nothing; so every
\* expiry gives at most one event, whatever edges arrive and whenever.
C27_DebounceMachine == []TogglesWithinExpiries /\ [][DebounceSteps]_vars

\* An edge arrived while the callback was executing, between the test of
\* line 297 and the store of line 299, which cleared its flag: the timer it
\* started has expired and the callback found the flag clear - two expiries,
\* one event.
C27_Witness ==
    /\ burst.late
    /\ burst.edges = 2
    /\ burst.expiries = 2
    /\ burst.toggles = 1
    /\ pc["timer"] = "idle"
    /\ ~timer_active
    /\ ~s_button_pressed

(***************************************************************************)
(* io_task as the handler of what the queue holds, on the full board: the  *)
(* scan of lines 278-290 over all of DI, for queue contents that include   *)
(* numbers that are no input: the button, the indicator, other GPIOs.      *)
(***************************************************************************)
\* Entries that the queue holds at the start.
MaxScanned == 3

\* GPIO numbers in the queue: input 0, input 9, the button, and three others.
ScannedGpios == {DI[1], DI[ESP32_RIO_NUM_IO_CHANNELS], OE_TOGGLE_BTN, 0, 19, 43}

\* The GPIO numbers of the ten inputs.
InputGpios == {DI[i + 1] : i \in AllChannels}

\* lines 278-279 with a number that matches no input taken for input 0
ScanDI_NoMatchIsZero(gpio_num) ==
    LET found == {i \in AllChannels : DI[i + 1] = gpio_num} IN
    IF found = {} THEN 0 ELSE CHOOSE i \in found : TRUE

\* lines 278-279 on the full board: the index i with io_num == DI[i], or -1
\* when the loop ends without a match
ScanDI(gpio_num) ==
    LET found == {i \in AllChannels : DI[i + 1] = gpio_num} IN
    IF found = {} THEN -1 ELSE CHOOSE i \in found : TRUE

\* The entries of a queue that are numbers of inputs, in order, as records
\* of the history trace.
RECURSIVE InputEntries(_)
InputEntries(items) ==
    IF items = <<>>
    THEN <<>>
    ELSE IF Head(items) \in InputGpios
         THEN <<[input |-> CHOOSE i \in AllChannels : DI[i + 1] = Head(items),
                 level |-> (CHOOSE i \in AllChannels : DI[i + 1] = Head(items)) % 2]>>
              \o InputEntries(Tail(items))
         ELSE InputEntries(Tail(items))

InitScan ==
    /\ coil_reg_params = [coils_bank0 |-> 0, coils_bank1 |-> 0]
    /\ discrete_reg_params = [discrete_inputs |-> 0]
    /\ outputs_enabled = FALSE
    /\ gpio_DQ0 = [i \in AllChannels |-> 0]
    /\ gpio_DQ1 = [i \in AllChannels |-> 0]
    /\ gpio_STATUS_LED = 0
    /\ gpio_DI = [i \in AllChannels |-> i % 2]
    /\ mb_events = 0
    /\ pc = [t \in Tasks |-> IF t = "timer" THEN "idle" ELSE "connect"]
    /\ idx = [t \in Tasks |-> 0]
    /\ bit = [t \in Tasks |-> FALSE]
    /\ ret = [t \in Tasks |-> "none"]
    /\ oe_coil_on = FALSE
    /\ pre = [t \in Tasks |-> NoSnap]
    /\ done = <<>>
    /\ window = <<>>
    /\ LockInit
    /\ reg_info = Uninitialised
    /\ BlinkInit
    /\ WifiInit
    /\ twin = NoTwin
    /\ s_button_pressed = FALSE
    /\ timer_active = FALSE
    /\ s_oe_button_toggle_callback = "on_oe_button_toggle"
    /\ s_di_level_change_callback = "on_di_level_change"
    /\ queue_items \in UNION {[1 .. n -> ScannedGpios] : n \in 0 .. MaxScanned}
    /\ io_pc = "L274"
    /\ io_num = 0
    /\ s_debounce_timer = "valid"
    /\ s_io_event_queue = "valid"
    /\ s_io_task_handle = "valid"
    /\ isr_handlers = AllHandlers
    /\ blinker = <<>>
    /\ err = "ESP_OK"
    /\ burst = [edges |-> 0, toggles |-> 0, late |-> FALSE, expiries |-> 0]
    /\ trace = [accepted |-> InputEntries(queue_items), delivered |-> <<>>]

\* lines 278-284: the scan; without a match the loop ends and io_task is
\* back at line 274
scan_L279 ==
    /\ s_io_task_handle = "valid"
    /\ io_pc = "L279"
    /\ IF ScanDI(io_num) >= 0 /\ s_di_level_change_callback # "NULL"
       THEN /\ io_pc' = "L285"
            /\ done' = <<>>
       ELSE /\ io_pc' = "L274"
            /\ done' = <<[task |-> "io_task",
                          path |-> IF ScanDI(io_num) < 0 THEN "no_match" ELSE "no_observer",
                          pre |-> Obs, queue |-> queue_items, gpio_num |-> io_num]>>
    /\ UNCHANGED <<lineVars, ctlVars, pre, window, dbVars, cbVars,
                   queue_items, io_num, sysVars, burst, trace, lockVars, reg_info, blink, wifi, twin>>

\* line 285: s_di_level_change_callback(i); line 288: break
scan_L285 ==
    /\ s_io_task_handle = "valid"
    /\ io_pc = "L285"
    /\ on_di_level_change(ScanDI(io_num))
    /\ io_pc' = "L274"
    /\ done' = <<>>
    /\ trace' = [trace EXCEPT !.delivered =
                    Append(@, [input |-> ScanDI(io_num),
                               level |-> Level(esp32_rio_is_input_on(ScanDI(io_num)))])]
    /\ UNCHANGED <<coil_reg_params, outputs_enabled, gpio_DQ0, gpio_DQ1,
                   gpio_STATUS_LED, gpio_DI, mb_events, oe_coil_on, bit, ctlVars,
                   pre, window, dbVars, cbVars, queue_items, io_num, sysVars, burst,
                   lockVars, reg_info, blink, wifi, twin>>

NextScan ==
    \/ io_L274
    \/ scan_L279
    \/ scan_L285

SpecScan == InitScan /\ [][NextScan]_vars

\* The scan has just ended without a match.
NoMatchRan == done # <<>> /\ done[1].path = "no_match"

\* The entry io_task holds, if it is the number of an input.
InputInFlight == IF io_pc # "L274" /\ io_num \in InputGpios THEN 1 ELSE 0

\* C28 (unknown identifier): when io_task has scanned a number that is none
\* of the ten inputs, the registers, the interlock, the outputs and the
\* queue are as they were, no call of the observer was made for it, and
\* io_task is back at xQueueReceive for the next entry: the calls made and
\* still to be made are exactly those for the entries that are inputs.
C28_UnknownIgnored ==
    /\ NoMatchRan =>
           /\ done[1].gpio_num \notin InputGpios
           /\ Obs = done[1].pre
           /\ queue_items = done[1].queue
           /\ io_pc = "L274"
    /\ Len(trace.delivered) + InputInFlight + Len(InputEntries(queue_items))
           = Len(trace.accepted)
    /\ \A k \in 1 .. Len(trace.delivered) : trace.delivered[k] = trace.accepted[k]

\* The number of the button, between the numbers of input 9 and input 0, has
\* just been scanned and ignored: the call for input 9 was made and has set
\* its bit, the entry of input 0 is the next to be received.
C28_Witness ==
    /\ NoMatchRan
    /\ done[1].gpio_num = OE_TOGGLE_BTN
    /\ Len(trace.delivered) = 1
    /\ trace.delivered[1].input = ESP32_RIO_NUM_IO_CHANNELS - 1
    /\ TestBit(discrete_reg_params.discrete_inputs, ESP32_RIO_NUM_IO_CHANNELS - 1)
    /\ queue_items = <<DI[1]>>

(***************************************************************************)
(* mb_slave_run with the three kinds of event of MB_READ_WRITE_MASK        *)
(* (lines 32-34): mbc_slave_check_event returns, mbc_slave_get_param_info  *)
(* fills reg_info, and lines 290-304 choose the branch by reg_info.type.   *)
(* The engine serves a read from the bound areas and changes nothing.      *)
(***************************************************************************)
ReadEvents == {"MB_EVENT_DISCRETE_RD", "MB_EVENT_COILS_RD"}

\* lines 290-304 with the else of line 304 missing: a coil read falls
\* through into the coil-write branch
BridgeDispatch_ReadFallsThrough(type) ==
    IF "MB_EVENT_DISCRETE_RD" \in type
    THEN "log"
    ELSE IF "MB_EVENT_COILS_RD" \in type \/ "MB_EVENT_COILS_WR" \in type
         THEN "coil_write"
         ELSE "none"

\* lines 290, 297, 304: if (type & MB_EVENT_DISCRETE_RD) .. else if (type &
\* MB_EVENT_COILS_RD) .. else if (type & MB_EVENT_COILS_WR) ..
BridgeDispatch(type) ==
    IF "MB_EVENT_DISCRETE_RD" \in type
    THEN "log"
    ELSE IF "MB_EVENT_COILS_RD" \in type
         THEN "log"
         ELSE IF "MB_EVENT_COILS_WR" \in type
              THEN "coil_write"
              ELSE "none"

\* lines 287-288: a master reads discrete inputs or coils; the engine answers
\* from the bound areas and the bridge obtains the read event
bridge_L287_read(e) ==
    /\ pc["main"] = "L287"
    /\ reg_info' = {e}
    /\ pc' = [pc EXCEPT !["main"] = "L290"]
    /\ done' = <<>>
    /\ PreStep("main", <<Obs>>)
    /\ window' = <<>>
    /\ UNCHANGED <<lineVars, idx, ret, rioVars, burst, trace, lockVars, blink, wifi, twin>>

\* lines 287-288: the bridge obtains a coil-write event
bridge_L287_write ==
    /\ pc["main"] = "L287"
    /\ mb_events > 0
    /\ mb_events' = mb_events - 1
    /\ reg_info' = {"MB_EVENT_COILS_WR"}
    /\ pc' = [pc EXCEPT !["main"] = "L290"]
    /\ NoHistory
    /\ UNCHANGED <<coil_reg_params, discrete_reg_params, outputs_enabled, gpio_DQ0,
                   gpio_DQ1, gpio_STATUS_LED, gpio_DI, oe_coil_on, bit, idx, ret,
                   rioVars, burst, trace, lockVars, blink, wifi, twin>>

\* lines 290-311: the branch; a read is logged and the loop starts over.
\* done records the state in which the read event was obtained, unless the
\* master has written a coil since.
bridge_L290 ==
    /\ pc["main"] = "L290"
    /\ IF BridgeDispatch(reg_info) = "coil_write"
       THEN /\ Goto("main", "L312")
            /\ Begin("main")
       ELSE /\ Goto("main", "L287")
            /\ done' = IF pre["main"] # NoSnap
                       THEN <<[task |-> "main", path |-> "read_event",
                               pre |-> pre["main"][1]]>>
                       ELSE <<>>
            /\ pre' = [t \in Tasks |-> NoSnap]
            /\ window' = <<>>
            /\ UNCHANGED <<rioVars, burst, trace, lockVars, reg_info, blink, wifi, twin>>
    /\ UNCHANGED <<coil_reg_params, discrete_reg_params, outputs_enabled, gpio_DQ0,
                   gpio_DQ1, gpio_STATUS_LED, gpio_DI, mb_events, oe_coil_on, bit>>

\* mb_slave_run from line 312 on: the coil-write branch
bridge_run ==
    \/ bridge_L312
    \/ bridge_L313
    \/ bridge_L317
    \/ bridge_L318
    \/ bridge_L327
    \/ bridge_L328
    \/ update_digital_outputs("main")
    \/ esp32_rio_disable_outputs("main")

NextBridge ==
    \/ app_main_connected
    \/ setup_reg_data
    \/ \E a \in MasterAddrs, v \in {0, 1} : MasterWriteCoil(a, v)
    \/ \E e \in ReadEvents : bridge_L287_read(e)
    \/ bridge_L287_write
    \/ bridge_L290
    \/ bridge_run

SpecBridge == Init /\ [][NextBridge]_vars

\* The bridge has just handled a read event.
ReadEventRan == done # <<>> /\ done[1].path = "read_event"

\* The main task is inside the coil-write branch (lines 312-330).
InCoilWriteBranch ==
    pc["main"] \in {"L312", "L313", "L317", "L318", "L327", "L328",
                    "upd_r0", "upd_w0", "upd_r1", "upd_w1", "dis_w0", "dis_w1"}

\* C29 (read events): when the bridge has handled a discrete-input read or a
\* coil read, outputs_enabled, every output, the indicator and the three
\* bitfields are as they were when it obtained the event, and it is back at
\* its wait; the coil-write branch is entered for a coil-write event only.
C29_ReadEventsObserved ==
    /\ ReadEventRan =>
           /\ reg_info \subseteq ReadEvents
           /\ Obs = done[1].pre
           /\ pc["main"] = "L287"
    /\ InCoilWriteBranch => reg_info = {"MB_EVENT_COILS_WR"}

\* A coil read has just been handled with the outputs enabled, output 0 of
\* bank 0 on and a coil-write notification waiting.
C29_Witness ==
    /\ ReadEventRan
    /\ reg_info = {"MB_EVENT_COILS_RD"}
    /\ outputs_enabled
    /\ gpio_DQ0[0] = 1
    /\ gpio_STATUS_LED = 1
    /\ mb_events > 0

\* The step is a step of mb_slave_run: the main task moves on from a line of
\* the loop.
BridgeStep ==
    /\ pc["main"] \in {"L287", "L290"} \/ InCoilWriteBranch
    /\ pc'["main"] # pc["main"]

\* C30 (the bridge and the register store): no step of mb_slave_run, whatever
\* the event, changes coils_bank0, coils_bank1 (bit 31 included) or
\* discrete_inputs; after a coil-write event handled with no master write in
\* between, also one that disabled or enabled the outputs, the three
\* bitfields are as the engine had left them.
C30_BridgeKeepsStore ==
    /\ [][BridgeStep => UNCHANGED <<coil_reg_params, discrete_reg_params>>]_vars
    /\ [](Returned("main") =>
              /\ coil_reg_params = done[1].pre.coils
              /\ discrete_reg_params = done[1].pre.di)

\* A coil-write event has been handled that enabled the outputs: coil 31 and
\* coil 0 had been written by the master, outputs_enabled went from false to
\* true, and the coil words are as they were.
C30_Witness ==
    /\ Returned("main")
    /\ done[1].path = "remote_enable"
    /\ ~done[1].pre.oe
    /\ outputs_enabled
    /\ MirrorBit(coil_reg_params)
    /\ TestBit(coil_reg_params.coils_bank0, 0)
    /\ coil_reg_params = done[1].pre.coils

(***************************************************************************)
(* mb_slave_run when mbc_slave_get_param_info delivers nothing (line 288): *)
(* the result is passed to ESP_ERROR_CHECK_WITHOUT_ABORT, which logs it,   *)
(* and line 290 goes on with reg_info as it is.  reg_info is a local       *)
(* without initialiser (line 282): before the first successful fetch its   *)
(* type field holds any value.                                             *)
(***************************************************************************)
EventBits == ReadEvents \cup {"MB_EVENT_COILS_WR"}

\* line 288: no notification is queued and the call returns an error within
\* MB_PAR_INFO_GET_TOUT; reg_info is not written
bridge_L288_err ==
    /\ pc["main"] = "L287"
    /\ mb_events = 0
    /\ IF reg_info = Uninitialised
       THEN reg_info' \in SUBSET EventBits
       ELSE reg_info' = reg_info
    /\ pc' = [pc EXCEPT !["main"] = "L288_err"]
    /\ NoHistory
    /\ UNCHANGED <<lineVars, idx, ret, rioVars, burst, trace, lockVars, blink, wifi, twin>>

\* lines 290-311 after the failed call: the same branch on reg_info.type
bridge_L290_err ==
    /\ pc["main"] = "L288_err"
    /\ IF BridgeDispatch(reg_info) = "coil_write"
       THEN /\ Goto("main", "L312")
            /\ Begin("main")
       ELSE /\ Goto("main", "L287")
            /\ NoHistory
            /\ UNCHANGED <<rioVars, burst, trace, lockVars, reg_info, blink, wifi, twin>>
    /\ UNCHANGED <<coil_reg_params, discrete_reg_params, outputs_enabled, gpio_DQ0,
                   gpio_DQ1, gpio_STATUS_LED, gpio_DI, mb_events, oe_coil_on, bit>>

NextFetch ==
    \/ app_main_connected
    \/ setup_reg_data
    \/ \E a \in MasterAddrs, v \in {0, 1} : MasterWriteCoil(a, v)
    \/ \E e \in ReadEvents : bridge_L287_read(e)
    \/ bridge_L287_write
    \/ bridge_L288_err
    \/ bridge_L290
    \/ bridge_L290_err
    \/ bridge_run

SpecFetch == Init /\ [][NextFetch]_vars

\* The bridge takes its step after a fetch that delivered nothing.
AfterFailedFetch == pc["main"] = "L288_err" /\ pc'["main"] # "L288_err"

\* C31 (no event delivered): after a fetch that delivered no event the bridge
\* goes back to its wait, with outputs_enabled, the outputs and the indicator
\* unchanged; it does not enter the coil-write handling on what reg_info
\* still holds.
C31_NoEventWaitsAgain ==
    [][AfterFailedFetch =>
           /\ pc'["main"] = "L287"
           /\ UNCHANGED <<outputs_enabled, gpio_DQ0, gpio_DQ1, gpio_STATUS_LED>>]_vars

(***************************************************************************)
(* modbus_params.h, the coil macros as functions of the address: a set or  *)
(* a clear is applied to sampled coil words, tested with MB_IS_COIL_ON,    *)
(* and applied once more.  done records each application and the store it  *)
(* was applied to; bit["main"] holds the result of the test.               *)
(***************************************************************************)
MaxCoilAddr == 33

\* Addresses the macros are given: every coil, the first addresses past the
\* banks, and values at and past the range of uint16_t.
MacroAddrs == (0 .. MaxCoilAddr) \cup {Pow2(16) - 1, Pow2(16), Pow2(16) + OE_COIL_ADDR}

MacroOps == {"MB_TURN_COIL_ON", "MB_TURN_COIL_OFF"}

MacroApply(op, params, address) ==
    IF op = "MB_TURN_COIL_ON"
    THEN MB_TURN_COIL_ON(params, address)
    ELSE MB_TURN_COIL_OFF(params, address)

InitMacro ==
    /\ coil_reg_params \in [coils_bank0 : CoilWords, coils_bank1 : CoilWords]
    /\ discrete_reg_params \in [discrete_inputs : {0, Pow2(ESP32_RIO_NUM_IO_CHANNELS) - 1}]
    /\ outputs_enabled = FALSE
    /\ gpio_DQ0 = [i \in Channels |-> 0]
    /\ gpio_DQ1 = [i \in Channels |-> 0]
    /\ gpio_STATUS_LED = 0
    /\ gpio_DI = [i \in Channels |-> 0]
    /\ mb_events = 0
    /\ pc = [t \in Tasks |-> "idle"]
    /\ idx = [t \in Tasks |-> 0]
    /\ bit = [t \in Tasks |-> FALSE]
    /\ ret = [t \in Tasks |-> "none"]
    /\ oe_coil_on = FALSE
    /\ pre = [t \in Tasks |-> NoSnap]
    /\ done = <<>>
    /\ window = <<>>
    /\ LockInit
    /\ reg_info = Uninitialised
    /\ BlinkInit
    /\ WifiInit
    /\ twin = NoTwin
    /\ IoServicesStarted

\* op(address); bit = MB_IS_COIL_ON(address)
MacroStep(op, address) ==
    /\ coil_reg_params' = MacroApply(op, coil_reg_params, address)
    /\ bit' = [bit EXCEPT !["main"] = MB_IS_COIL_ON(coil_reg_params', address)]
    /\ done' = Append(done, [task |-> "main", path |-> op, address |-> address,
                             pre |-> [coils |-> coil_reg_params,
                                      di |-> discrete_reg_params]])
    /\ UNCHANGED <<discrete_reg_params, outputs_enabled, gpio_DQ0, gpio_DQ1,
                   gpio_STATUS_LED, gpio_DI, mb_events, oe_coil_on, pc, idx, ret,
                   pre, window, rioVars, burst, trace, lockVars, reg_info, blink, wifi, twin>>

macro_first(op, address) == done = <<>> /\ MacroStep(op, address)

\* the same macro with the same address once more
macro_again == Len(done) = 1 /\ MacroStep(done[1].path, done[1].address)

NextMacro ==
    \/ \E op \in MacroOps, a \in MacroAddrs : macro_first(op, a)
    \/ macro_again

SpecMacro == InitMacro /\ [][NextMacro]_vars

\* What the last application has done if it addressed coil addr: the test
\* gives the written value, bit addr of bank 0 (addr < 16) or bit addr - 16
\* of bank 1 holds it, every other bit of both banks and discrete_inputs are
\* as before, and a second application changed nothing; past the banks
\* nothing has changed and the test gives false.
MacroEffect(addr) ==
    LET r == done[Len(done)]
        on == r.path = "MB_TURN_COIL_ON"
        was == r.pre.coils
    IN  /\ IF addr < 2 * BankBits
           THEN /\ bit["main"] = on
                /\ TestBit(IF addr < BankBits
                           THEN coil_reg_params.coils_bank0
                           ELSE coil_reg_params.coils_bank1, addr % BankBits) = on
                /\ \A k \in 0 .. (BankBits - 1) :
                       /\ k # addr =>
                              TestBit(coil_reg_params.coils_bank0, k)
                                  = TestBit(was.coils_bank0, k)
                       /\ k + BankBits # addr =>
                              TestBit(coil_reg_params.coils_bank1, k)
                                  = TestBit(was.coils_bank1, k)
           ELSE /\ coil_reg_params = was
                /\ bit["main"] = FALSE
        /\ discrete_reg_params = r.pre.di
        /\ Len(done) = 2 => coil_reg_params = was

MORSE_DOT_DURATION_MS == 250

MORSE_DASH_DURATION_MS == 3 * MORSE_DOT_DURATION_MS

MORSE_ELEMENT_PAUSE_MS == MORSE_DOT_DURATION_MS

MORSE_LETTER_PAUSE_MS == 3 * MORSE_DOT_DURATION_MS

MORSE_WORD_PAUSE_MS == 7 * MORSE_DOT_DURATION_MS

MaxPeriods == 4

\* The delays with the pause of line 335 taken as the pause between words.
BlinkerDelay_WordPause(line) ==
    CASE line = "L312" -> 0
      [] line = "L320" -> MORSE_DOT_DURATION_MS
      [] line = "L322" -> MORSE_ELEMENT_PAUSE_MS
      [] line = "L326" -> MORSE_DASH_DURATION_MS
      [] line = "L328" -> MORSE_ELEMENT_PAUSE_MS
      [] line = "L332" -> MORSE_DASH_DURATION_MS
      [] line = "L334" -> MORSE_WORD_PAUSE_MS

\* The vTaskDelay that follows the gpio_set_level of each line, in ms (none
\* after line 312).
BlinkerDelay(line) ==
    CASE line = "L312" -> 0
      [] line = "L320" -> MORSE_DOT_DURATION_MS
      [] line = "L322" -> MORSE_ELEMENT_PAUSE_MS
      [] line = "L326" -> MORSE_DASH_DURATION_MS
      [] line = "L328" -> MORSE_ELEMENT_PAUSE_MS
      [] line = "L332" -> MORSE_DASH_DURATION_MS
      [] line = "L334" -> MORSE_LETTER_PAUSE_MS

\* One repetition of the loop, in dot durations.
PeriodUnits ==
    (2 * MORSE_DOT_DURATION_MS + 2 * MORSE_DASH_DURATION_MS
        + MORSE_ELEMENT_PAUSE_MS + MORSE_LETTER_PAUSE_MS) \div MORSE_DOT_DURATION_MS

\* The indicator is in either state when the alarm is raised.
InitBlink ==
    /\ coil_reg_params = [coils_bank0 |-> 0, coils_bank1 |-> 0]
    /\ discrete_reg_params = [discrete_inputs |-> 0]
    /\ outputs_enabled \in BOOLEAN
    /\ gpio_DQ0 = [i \in Channels |-> 0]
    /\ gpio_DQ1 = [i \in Channels |-> 0]
    /\ gpio_STATUS_LED = Level(outputs_enabled)
    /\ gpio_DI = [i \in Channels |-> 0]
    /\ mb_events = 0
    /\ pc = [t \in Tasks |-> IF t = "timer" THEN "idle" ELSE "connect"]
    /\ idx = [t \in Tasks |-> 0]
    /\ bit = [t \in Tasks |-> FALSE]
    /\ ret = [t \in Tasks |-> "none"]
    /\ oe_coil_on = FALSE
    /\ pre = [t \in Tasks |-> NoSnap]
    /\ done = <<>>
    /\ window = <<>>
    /\ LockInit
    /\ reg_info = Uninitialised
    /\ BlinkInit
    /\ WifiInit
    /\ twin = NoTwin
    /\ IoServicesStarted

\* esp32_rio_start_morse_blinker, once
blink_start ==
    /\ blinker = <<>>
    /\ esp32_rio_start_morse_blinker
    /\ UNCHANGED <<interlockVars, dbVars, cbVars, qVars, resVars, err, burst, trace,
                   lockVars, reg_info, blink, wifi, twin>>

\* gpio_set_level(STATUS_LED, ..) and the call of vTaskDelay after it
blink_write ==
    /\ Len(blinker) = 1
    /\ blink.left = 0
    /\ gpio_STATUS_LED' = BlinkerWrite(blinker[1]).level
    /\ blinker' = <<BlinkerWrite(blinker[1]).next>>
    /\ blink' = [blink EXCEPT !.left = BlinkerDelay(blinker[1]) \div MORSE_DOT_DURATION_MS]
    /\ NoHistory
    /\ UNCHANGED <<coil_reg_params, discrete_reg_params, outputs_enabled, gpio_DQ0,
                   gpio_DQ1, gpio_DI, mb_events, oe_coil_on, bit, ctlVars,
                   dbVars, cbVars, qVars, resVars, err, burst, trace, lockVars,
                   reg_info, wifi, twin>>

\* one dot duration passes while the task is delayed
blink_tick ==
    /\ blink.left > 0
    /\ blink' = [left |-> blink.left - 1,
                 units |-> (blink.units + 1) % PeriodUnits,
                 periods |-> IF blink.units + 1 = PeriodUnits /\ blink.periods < MaxPeriods
                             THEN blink.periods + 1
                             ELSE blink.periods]
    /\ UNCHANGED <<interlockVars, rioVars, burst, trace, lockVars, reg_info, wifi, twin>>

NextBlink ==
    \/ blink_start
    \/ blink_write
    \/ blink_tick

\* The scheduler runs the blinker task when its delay is over, and time passes.
SpecBlink ==
    InitBlink /\ [][NextBlink]_vars /\ WF_vars(blink_write) /\ WF_vars(blink_tick)

\* Morse W: the level of the indicator in each dot duration of a repetition.
MorseW == <<1, 0, 1, 1, 1, 0, 1, 1, 1, 0, 0, 0>>

\* A dot duration passes.
UnitPasses == blink'.left < blink.left

\* The task makes its first write.
FirstWrite == blinker = <<"L312">> /\ blinker' # blinker

\* C33 (alarm blink pattern): the first write of a started blinker puts the
\* indicator off; in every dot duration after that the indicator has the
\* level of the pattern on 1, off 1, on 3, off 1, on 3, off 3; and the
\* blinker never ends: it is at the start of a repetition again and again.
C33_BlinkPattern ==
    /\ [][FirstWrite => gpio_STATUS_LED' = 0]_vars
    /\ [][UnitPasses => gpio_STATUS_LED = MorseW[blink.units + 1]]_vars
    /\ [](Len(MorseW) = PeriodUnits)
    /\ [](blinker # <<>> => <>(blinker = <<"L320">> /\ blink.units = 0 /\ blink.left = 0))

\* The blinker, started with the indicator on, is in its second repetition,
\* two dot durations into the second dash.
C33_Witness ==
    /\ blinker = <<"L334">>
    /\ blink.periods = 1
    /\ blink.units = 8
    /\ blink.left = 1
    /\ gpio_STATUS_LED = 1
    /\ outputs_enabled

(***************************************************************************)
(* Two local toggles in a row, in the interlock code as a whole.  The      *)
(* second toggle that follows a returned one opens a window that keeps     *)
(* the state the first one started from; a write of the master or a        *)
(* coil-write handling of the bridge closes it, as for every window.       *)
(***************************************************************************)
\* line 59 again: the handler is entered right after a run of it returned
pair_again ==
    /\ Returned("timer")
    /\ ToggleEnter("idle")
    /\ done' = <<>>
    /\ PreStep("timer", <<Obs>>)
    /\ window' = <<[snap |-> done[1].pre, n |-> 2, pair |-> TRUE,
                     rest |-> BridgeIdle /\ mb_events = 0]>>
    /\ UNCHANGED <<rioVars, burst, trace, lockVars, reg_info, blink, wifi, twin>>

NextPair == Next \/ pair_again

SpecPair == Init /\ [][NextPair]_vars

\* The second of two toggles in a row has returned, with no write of the
\* master and no step of the bridge since the first began, the bridge at its
\* wait all along and no coil-write event pending.
PairRan ==
    /\ Returned("timer")
    /\ window # <<>>
    /\ "pair" \in DOMAIN window[1]
    /\ window[1].rest

\* The state s is settled in the sense of the claim: coil 31 equals
\* outputs_enabled, and the outputs are all off if it is false and equal to
\* their coil bits if it is true.
SettledSnap(s) ==
    /\ MirrorBit(s.coils) = s.oe
    /\ \A k \in Channels :
           /\ s.DQ0[k] = Level(s.oe /\ MB_IS_COIL_ON(s.coils, CoilOfOutput(0, k)))
           /\ s.DQ1[k] = Level(s.oe /\ MB_IS_COIL_ON(s.coils, CoilOfOutput(1, k)))

\* C34 (two toggles are an involution): after two local toggles in a row
\* that started from a settled state, outputs_enabled, coil 31 and every
\* other coil bit, the indicator and every output are what they were before
\* the first one.
C34_ToggleInvolution ==
    (PairRan /\ SettledSnap(window[1].snap)) =>
        /\ outputs_enabled = window[1].snap.oe
        /\ coil_reg_params = window[1].snap.coils
        /\ gpio_STATUS_LED = window[1].snap.led
        /\ gpio_DQ0 = window[1].snap.DQ0
        /\ gpio_DQ1 = window[1].snap.DQ1

(***************************************************************************)
(* The interrupt handler and the objects it uses, during                   *)
(* esp32_rio_io_services_init.                                             *)
(***************************************************************************)
\* C35 (handlers and their objects): whenever io_isr_handler is hooked for
\* the button or for an input, the debounce timer and the event queue have
\* been created and not deleted.
C35_HandlersHaveObjects ==
    isr_handlers # {} =>
        /\ s_debounce_timer = "valid"
        /\ s_io_event_queue = "valid"

(***************************************************************************)
(* wifi_connect.c: the first connection made by esp32_rio_connect (lines   *)
(* 129-152, 326-355) on the main task, and the handlers of the disconnect  *)
(* and got-IP events (lines 282-323) on the event loop task.  A handler    *)
(* runs to its end in one step.  app_main goes on at line 343 when the     *)
(* connection is made and through destroy_services to line 359 when not.   *)
(***************************************************************************)
ESP32_RIO_WIFI_CONN_MAX_RETRY == 10

\* line 284 with >= for >: the callback comes one event early
RetryExceeded_AtMax(n) == n >= ESP32_RIO_WIFI_CONN_MAX_RETRY

\* lines 284 and 349: s_retry_num > ESP32_RIO_WIFI_CONN_MAX_RETRY
RetryExceeded(n) == n > ESP32_RIO_WIFI_CONN_MAX_RETRY

DisconnectReasons == {"WIFI_REASON_ROAMING", "WIFI_REASON_OTHER"}

\* A step of the main task inside esp32_rio_connect.
WifiMain(line) ==
    /\ Goto("main", line)
    /\ NoHistory
    /\ UNCHANGED <<lineVars, rioVars, burst, trace, lockVars, reg_info, blink, twin>>

\* lines 327-337: the semaphore is created, s_retry_num = 0, the three
\* handlers are registered; or xSemaphoreCreateBinary fails and
\* esp32_rio_connect returns false
wifi_L327 ==
    /\ pc["main"] = "connect"
    /\ \/ /\ wifi' = [wifi EXCEPT !.sem = "empty", !.s_retry_num = 0,
                                  !.registered = TRUE, !.since = 0]
          /\ WifiMain("W341")
       \/ /\ wifi' = wifi
          /\ WifiMain("L357")

\* lines 341-345: esp_wifi_connect(); an error is returned at once
wifi_L341 ==
    /\ pc["main"] = "W341"
    /\ \/ /\ wifi' = [wifi EXCEPT !.link = "connecting"]
          /\ WifiMain("W348")
       \/ /\ wifi' = wifi
          /\ WifiMain("L357")

\* lines 348-353: xSemaphoreTake, vSemaphoreDelete, and the test of s_retry_num
wifi_L348 ==
    /\ pc["main"] = "W348"
    /\ wifi.sem = "given"
    /\ wifi' = [wifi EXCEPT !.sem = "NULL"]
    /\ WifiMain(IF RetryExceeded(wifi.s_retry_num) THEN "L357" ELSE "L343")

esp32_rio_connect ==
    \/ wifi_L327
    \/ wifi_L341
    \/ wifi_L348

\* esp32_rio_handler_on_wifi_disconnect (lines 282-310) for an event with the
\* given reason; over the limit it gives the semaphore, unregisters the
\* handlers (esp32_rio_wifi_sta_do_disconnect) and calls on_connection_lost
esp32_rio_handler_on_wifi_disconnect(reason) ==
    /\ wifi.registered
    /\ wifi.link \in {"connecting", "connected"}
    /\ LET n == wifi.s_retry_num + 1
           counted == [wifi EXCEPT !.s_retry_num = n, !.since = @ + 1,
                                   !.reason = reason]
       IN  IF RetryExceeded(n)
           THEN /\ wifi' = [counted EXCEPT !.sem = IF @ = "NULL" THEN @ ELSE "given",
                                           !.registered = FALSE,
                                           !.link = "stopped",
                                           !.lost = @ + 1,
                                           !.last = "lost"]
                /\ esp32_rio_start_morse_blinker
           ELSE /\ IF reason = "WIFI_REASON_ROAMING"
                   THEN wifi' = [counted EXCEPT !.last = "roaming"]
                   ELSE wifi' = [counted EXCEPT !.last = "reconnect",
                                                !.link = "connecting"]
                /\ blinker' = blinker
    /\ UNCHANGED <<interlockVars, dbVars, cbVars, qVars, resVars, err, burst, trace,
                   lockVars, reg_info, blink, twin>>

\* esp32_rio_handler_on_sta_got_ip (lines 316-323)
esp32_rio_handler_on_sta_got_ip ==
    /\ wifi.registered
    /\ wifi.link = "connecting"
    /\ wifi' = [wifi EXCEPT !.s_retry_num = 0, !.since = 0,
                            !.sem = IF @ = "NULL" THEN @ ELSE "given",
                            !.link = "connected"]
    /\ UNCHANGED <<interlockVars, rioVars, burst, trace, lockVars, reg_info, blink, twin>>

NextWifi ==
    \/ esp32_rio_connect
    \/ \E reason \in DisconnectReasons : esp32_rio_handler_on_wifi_disconnect(reason)
    \/ esp32_rio_handler_on_sta_got_ip
    \/ app_L357
    \/ esp32_rio_io_services_deinit
    \/ app_L357_check
    \/ app_L359

SpecWifi == Init /\ [][NextWifi]_vars

\* C36 (one blinker): esp32_rio_start_morse_blinker creates a blinker task at
\* most once over a run of app_main, the run in which the first connection
\* fails after its retries included.
C36_OneBlinker == Len(blinker) <= 1

\* The disconnect handler has handled an event.
DisconnectHandled == wifi'.since = wifi.since + 1

\* The connection-lost callback is called.
LostCalled == wifi'.lost > wifi.lost

\* An address is obtained.
GotIp == wifi.link = "connecting" /\ wifi'.link = "connected"

\* C39 (reconnect bound, one notification): s_retry_num counts every
\* disconnect event handled since the handlers were registered or an address
\* was obtained, and obtaining an address sets it to 0; the callback is called
\* only by the handling of the 11th such event, which finds the counter over
\* 10 and unregisters the handlers, so it is called at most once; every
\* earlier event with another reason than roaming starts a reconnect.
C39_ReconnectBound ==
    /\ [](wifi.s_retry_num = wifi.since)
    /\ [](wifi.lost <= 1)
    /\ [][GotIp => wifi'.s_retry_num = 0]_vars
    /\ [][LostCalled =>
              /\ DisconnectHandled
              /\ wifi'.since = ESP32_RIO_WIFI_CONN_MAX_RETRY + 1
              /\ wifi.registered /\ ~wifi'.registered]_vars
    /\ [][(DisconnectHandled /\ ~LostCalled) =>
              /\ wifi'.since <= ESP32_RIO_WIFI_CONN_MAX_RETRY
              /\ wifi'.reason # "WIFI_REASON_ROAMING" =>
                     wifi'.last = "reconnect" /\ wifi'.link = "connecting"]_vars

\* The connection was made, an address obtained, and then lost: the 11th
\* disconnect event in a row has called the callback, the handlers are
\* unregistered and app_main is past esp32_rio_connect, which returned true.
C39_Witness ==
    /\ wifi.lost = 1
    /\ wifi.last = "lost"
    /\ wifi.since = ESP32_RIO_WIFI_CONN_MAX_RETRY + 1
    /\ ~wifi.registered
    /\ pc["main"] = "L343"
    /\ Len(blinker) = 1

(***************************************************************************)
(* The discrete inputs against the lines once the queue is drained, with   *)
(* start-up included (the statements of setup_reg_data and of              *)
(* on_di_level_change as in the lock specification, where no edge is ever  *)
(* dropped: at most MaxWaiting entries wait in a queue of QueueLength).    *)
(***************************************************************************)
\* No edge waits or is being handled, and setup_reg_data has returned.
InputsAtRest ==
    /\ queue_items = <<>>
    /\ io_pc = "L274"
    /\ pc["main"] = "L287"

\* C37 (inputs stale only by overflow): with no edge dropped, once the
\* consumer has drained the queue, bit i of discrete_inputs equals the level
\* of input line i for every channel, edges that arrive while setup_reg_data
\* probes the inputs included.
C37_FreshWhenDrained ==
    (InputsAtRest /\ MaxWaiting <= QueueLength) =>
        \A i \in Channels :
            TestBit(discrete_reg_params.discrete_inputs, i) = esp32_rio_is_input_on(i)

(***************************************************************************)
(* Two runs of the interlock code on the same toggles and the same writes  *)
(* of the master, from coil words that differ in reserved bits only.  The  *)
(* first run is in the variables of the interlock code, the second in      *)
(* twin, an observable state like Obs.  Each handler is one step, done by  *)
(* both runs.                                                              *)
(***************************************************************************)
\* The reserved bits of the two coil words: coils 10..15 are bits 10..15 of
\* coils_bank0, coils 26..30 are bits 10..14 of coils_bank1 (modbus_params.h
\* lines 62-121).
ReservedBits0 == Pow2(16) - Pow2(10)

ReservedBits1 == Pow2(15) - Pow2(10)

\* Coil words with only reserved bits set.
ReservedWords ==
    [coils_bank0 : {0, Pow2(10), ReservedBits0}, coils_bank1 : {0, ReservedBits1}]

\* The first run takes the observable state o.
SetObs(o) ==
    /\ coil_reg_params' = o.coils
    /\ discrete_reg_params' = o.di
    /\ outputs_enabled' = o.oe
    /\ gpio_DQ0' = o.DQ0
    /\ gpio_DQ1' = o.DQ1
    /\ gpio_STATUS_LED' = o.led

InitTwin ==
    /\ coil_reg_params \in ReservedWords
    /\ discrete_reg_params = [discrete_inputs |-> 0]
    /\ outputs_enabled = FALSE
    /\ gpio_DQ0 = [i \in Channels |-> 0]
    /\ gpio_DQ1 = [i \in Channels |-> 0]
    /\ gpio_STATUS_LED = 0
    /\ gpio_DI = [i \in Channels |-> 0]
    /\ mb_events = 0
    /\ pc = [t \in Tasks |-> IF t = "timer" THEN "idle" ELSE "L287"]
    /\ idx = [t \in Tasks |-> 0]
    /\ bit = [t \in Tasks |-> FALSE]
    /\ ret = [t \in Tasks |-> "none"]
    /\ oe_coil_on = FALSE
    /\ pre = [t \in Tasks |-> NoSnap]
    /\ done = <<>>
    /\ window = <<>>
    /\ LockInit
    /\ reg_info = Uninitialised
    /\ BlinkInit
    /\ WifiInit
    /\ IoServicesStarted
    /\ twin \in {[Obs EXCEPT !.coils = c] : c \in ReservedWords}

TwinFrame ==
    UNCHANGED <<gpio_DI, pc, idx, bit, ret, oe_coil_on, pre, done, window, rioVars,
                burst, trace, lockVars, reg_info, blink, wifi>>

\* on_oe_button_toggle (lines 58-71) in both runs
twin_toggle ==
    /\ SetObs(SeqToggle(Obs))
    /\ twin' = SeqToggle(twin)
    /\ mb_events' = mb_events
    /\ TwinFrame

\* the master writes coil a := v in both runs
twin_master_write(a, v) ==
    /\ mb_events < MaxEvents
    /\ mb_events' = mb_events + 1
    /\ SetObs([Obs EXCEPT !.coils = EngineStore(@, a, v)])
    /\ twin' = [twin EXCEPT !.coils = EngineStore(@, a, v)]
    /\ TwinFrame

\* the coil-write branch of mb_slave_run (lines 312-330) in both runs
twin_coil_write ==
    /\ mb_events > 0
    /\ mb_events' = mb_events - 1
    /\ SetObs(SeqCoilWrite(Obs))
    /\ twin' = SeqCoilWrite(twin)
    /\ TwinFrame

NextTwin ==
    \/ twin_toggle
    \/ \E a \in MasterAddrs, v \in {0, 1} : twin_master_write(a, v)
    \/ twin_coil_write

SpecTwin == InitTwin /\ [][NextTwin]_vars

\* w with its reserved bits cleared.
Unreserved(params) ==
    [coils_bank0 |-> params.coils_bank0 % Pow2(10),
     coils_bank1 |-> (params.coils_bank1 % Pow2(10))
                         + Pow2(15) * (params.coils_bank1 \div Pow2(15))]

\* C38 (reserved coils do not interfere): in two runs on the same toggles and
\* coil writes, from coil banks that differ only in coils 10..15 and 26..30,
\* outputs_enabled, the indicator and every output are equal at every step
\* (and the banks go on differing in reserved bits at most).
C38_ReservedNoInterference ==
    /\ twin.oe = outputs_enabled
    /\ twin.led = gpio_STATUS_LED
    /\ twin.DQ0 = gpio_DQ0
    /\ twin.DQ1 = gpio_DQ1
    /\ Unreserved(twin.coils) = Unreserved(coil_reg_params)

\* The two runs differ in reserved bits of both banks, are Enabled after a
\* remote enable has been handled, and both drive output 0 of bank 0 and
\* the last output of bank 1.
C38_Witness ==
    /\ twin.coils.coils_bank0 # coil_reg_params.coils_bank0
    /\ twin.coils.coils_bank1 # coil_reg_params.coils_bank1
    /\ outputs_enabled
    /\ mb_events = 0
    /\ gpio_DQ0[0] = 1
    /\ gpio_DQ1[NumChannels - 1] = 1
    /\ twin.DQ0[0] = 1

====
